---- MODULE Spec2Model ----
(***************************************************************************)
(* Telemetry pipeline of the day3 capstone crates:                         *)
(*   temp_store  - TemperatureStore, a bounded, mutex-guarded history      *)
(*   temp_async  - AsyncTemperatureMonitor, the select! sampling loop,     *)
(*                 and MonitorHandle, the command senders                  *)
(*   temp_protocol - TemperatureProtocolHandler, the request/response      *)
(*                 handler over versioned envelopes, and their JSON and    *)
(*                 postcard wire forms                                     *)
(*   temp_embedded - EmbeddedProtocolHandler<N> over its fixed-capacity    *)
(*                 EmbeddedTemperatureStore<N>                             *)
(* Each crate is a specification of its own over the module's variables:   *)
(* StoreSpec drives one store from several threads through its handles,    *)
(* MonitorSpec drives one monitor, its sensor and its callers,             *)
(* ProtocolSpec drives one handler with envelopes of every kind,           *)
(* WireSpec encodes and decodes one envelope in either wire form,          *)
(* EmbeddedSpec drives one embedded handler and its store.                 *)
(***************************************************************************)
EXTENDS Integers, Sequences, FiniteSets, TLC

(***************************************************************************)
(* Bounds of the model                                                     *)
(***************************************************************************)
\* largest capacity a store is constructed with (0..MaxCap)
MaxCap == 2
\* number of TemperatureReading values created in one behaviour
MaxAdds == 3
\* number of threads, each owning at most one handle of the store
NumThreads == 2
\* largest count passed to get_recent_readings
MaxCount == 2

\* largest Duration, in timer units, given to run() and set_interval (0..MaxDuration)
MaxDuration == 1
\* number of callers, each owning at most one MonitorHandle
NumCallers == 2
\* number of MonitorHandle calls made in one behaviour
MaxCalls == 2
\* largest capacity tried for the command channel (mpsc::channel(32) in the source)
ChannelCapacity == 2
\* number of readings reported by the protocol handler that are remembered
\* (more than its store holds)
MaxAnswered == 3
\* number of sensor reads the monitor starts in one behaviour
MaxReads == 2

\* largest version field of an envelope given to process_command (0..MaxVersion)
MaxVersion == 2
\* largest id field of an envelope given to process_command (0..MaxId)
MaxId == 1
\* number of envelopes create_command builds in one behaviour
MaxCreated == 2
\* largest last_n of a GetHistory command
MaxLastN == 1
\* seconds the handler's clock advances in one behaviour
MaxElapsed == 1
\* largest const generic N an embedded store is built with (0..MaxN)
MaxN == 3
\* number of add_reading calls made on the embedded handler in one behaviour
MaxEmbeddedAdds == 4
\* largest start_time and current_time given to the embedded handler
MaxTime == 1
\* capacity of the handler's store: TemperatureStore::new(100) in the source,
\* scaled down
HandlerCapacity == 2

\* SAMPLE_RATE_HZ, temp_embedded line 145
SAMPLE_RATE_HZ == 10
\* the values of a u8, temp_embedded line 203
U8 == 256

\* celsius values of the readings (f32 in the source, integers here)
Temps == {-1, 0, 2}

Threads == 1..NumThreads
Capacities == 0..MaxCap
Callers == 1..NumCallers
\* the temperature the mock sensor of the monitor is built with
SensorTemps == {2}
Durations == 0..MaxDuration

VARIABLES
    \* ---- temp_store -----------------------------------------------------
    capacity,     \* TemperatureStore.capacity of the first handle
    readings,     \* the Vec<TemperatureReading> behind the Arc<Mutex<..>>
    lockOwner,    \* thread holding the MutexGuard, 0 when the mutex is free
    poisoned,     \* the mutex was poisoned by a panic of a guard holder
    hcap,         \* hcap[t]: capacity field of thread t's handle, -1: no handle
    tpc,          \* tpc[t]: position of thread t inside a store call
    top,          \* top[t]: the call thread t is making
    tres,         \* tres[t]: value the call of thread t returns
    issued,       \* timestamps of the readings created so far
    \* ---- history of the store, kept beside it ---------------------------
    sinceClear,   \* readings pushed since the last clear(), in push order
    linReadings,  \* the sequence as the calls taken in lock order leave it
    texp,         \* texp[t]: what the call of t returns taken in lock order
    \* ---- temp_async ----------------------------------------------------
    monPc,        \* where run() is: new, select, read, stopped, panicked
    monAlive,     \* the AsyncTemperatureMonitor has not been dropped
    monStore,     \* the readings of the monitor's own TemperatureStore
    monCapacity,  \* the capacity of that store
    chanCap,      \* the capacity of the command channel (32 in new())
    period,       \* period of sample_interval
    tickReady,    \* sample_interval.tick() is ready
    sensor,       \* AsyncMockSensor { temperature, fail_next }
    now,          \* number of readings the monitor has created (timestamps)
    reads,        \* number of sensor reads started so far
    queue,        \* commands buffered in the mpsc channel, oldest first
    waiters,      \* callers suspended in send().await, in arrival order
    cpc,          \* cpc[c]: none, idle, sending, awaiting, dropped
    pending,      \* pending[c]: the command caller c is sending
    cslot,        \* cslot[c]: the oneshot channel of c's query, 0 if none
    cres,         \* cres[c]: what the last call of c returned
    slots,        \* the oneshot channels created so far
    calls,        \* number of MonitorHandle calls made so far
    \* ---- history of the monitor, kept beside it -------------------------
    stopAt,       \* where run() was when the Stop it obeyed entered the channel
    \* ---- temp_protocol -------------------------------------------------
    next_message_id, \* TemperatureProtocolHandler.next_message_id
    sensors,      \* sensors[id]: the MockTemperatureSensor registered as id
    store,        \* the readings of the handler's TemperatureStore
    thresholds,   \* thresholds[id]: None, or Some(<<min, max>>)
    elapsed,      \* seconds since start_time
    request,      \* the envelope last built by create_command or given to
                  \* process_command
    response,     \* the envelope process_command returned for it
    \* ---- history of the handler, kept beside it -------------------------
    sensor_reads, \* read_temperature calls made by the last process_command
    created_ids,  \* the ids create_command has handed out, in order
    answered,     \* the readings reported in Reading responses, in order (the
                  \* newest MaxAnswered of them)
    \* ---- temp_protocol, wire forms --------------------------------------
    envelope,     \* the ProtocolMessage given to serialize_json / _binary
    wire,         \* None, or Some of the String or Vec<u8> it was encoded to
    decoded,      \* None, or Some of the Result deserialize_* gave for wire
    \* ---- temp_embedded --------------------------------------------------
    N,            \* the const generic N of the handler and of its store
    ereadings,    \* EmbeddedTemperatureStore.readings, a heapless Vec<_, N>
    total_readings, \* EmbeddedTemperatureStore.total_readings
    sample_rate,  \* EmbeddedProtocolHandler.sample_rate
    start_time,   \* EmbeddedProtocolHandler.start_time
    epanicked,    \* a call panicked: the device has halted
    erequest,     \* None, or Some of the last call made
    eresponse,    \* None, or Some of what that call returned
    \* ---- history of the embedded store, kept beside it -------------------
    eadds,        \* number of add_reading calls made so far
    eadded,       \* the readings given to add_reading since the last clear
    dyn           \* the Vec of a TemperatureStore of capacity N given the
                  \* same adds and clears

storeVars == <<capacity, readings, lockOwner, poisoned, hcap, tpc, top, tres,
               issued, sinceClear, linReadings, texp>>

monVars == <<monPc, monAlive, monStore, monCapacity, chanCap, period, tickReady, sensor,
             now, reads, queue, waiters, cpc, pending, cslot, cres, slots, calls,
             stopAt>>

protoVars == <<next_message_id, sensors, store, thresholds, elapsed, request,
               response, sensor_reads, created_ids, answered>>

wireVars == <<envelope, wire, decoded>>

embVars == <<N, ereadings, total_readings, sample_rate, start_time, epanicked,
             erequest, eresponse, eadds, eadded, dyn>>

vars == <<storeVars, monVars, protoVars, wireVars, embVars>>

(***************************************************************************)
(* Values                                                                  *)
(***************************************************************************)
\* TemperatureReading { temperature, timestamp }
TemperatureReading(temp, ts) == [temperature |-> temp, timestamp |-> ts]

\* Option<T>: None is the empty sequence, Some(x) the sequence of x alone
None == <<>>
Some(x) == <<x>>

RECURSIVE Gcd(_, _)
Gcd(a, b) == IF b = 0 THEN a ELSE Gcd(b, a % b)

Abs(x) == IF x < 0 THEN -x ELSE x

\* the quotient sum / n of the source's f32 division, kept exact as the
\* fraction num/den in lowest terms with den > 0
Divide(sum, n) ==
    LET g == Gcd(Abs(sum), n)
    IN  [num |-> sum \div g, den |-> n \div g]

\* TemperatureStats { min, max, average, count }
TemperatureStats(mn, mx, avg, cnt) ==
    [min |-> mn, max |-> mx, average |-> avg, count |-> cnt]

\* MonitorCommand: SetInterval(Duration), GetStats(reply), GetLatest(reply), Stop
\* (kept as history: at, where run() was when the command entered the channel,
\* and waited, whether its send was suspended first)
MonitorCommand(k, d, reply) ==
    [kind |-> k, duration |-> d, reply |-> reply, at |-> "", waited |-> FALSE]
SetIntervalCmd(d) == MonitorCommand("SetInterval", d, 0)
GetStatsCmd(reply) == MonitorCommand("GetStats", 0, reply)
GetLatestCmd(reply) == MonitorCommand("GetLatest", 0, reply)
StopCmd == MonitorCommand("Stop", 0, 0)
NoCmd == MonitorCommand("none", 0, 0)

\* how a MonitorHandle call returned: Ok(..), Err(SendError), Err(RecvError);
\* the value of an Ok reply is the value of the call's oneshot channel
NoResult == "none"
OkResult == "ok"
SendError == "send_error"
RecvError == "recv_error"

\* a oneshot channel: open (nothing sent, both ends alive), sent (a value waits
\* for the receiver), taken (the receiver got it), abandoned (the receiver was
\* dropped), dead (the sender was dropped unused); sends counts reply.send calls
Oneshot(st, v, n) == [state |-> st, value |-> v, sends |-> n]

\* a step of the store leaves temp_async alone, and the other way round
StoreFrame == UNCHANGED <<monVars, protoVars, wireVars, embVars>>
MonitorFrame == UNCHANGED <<storeVars, protoVars, wireVars, embVars>>
ProtocolFrame == UNCHANGED <<storeVars, monVars, wireVars, embVars>>
WireFrame == UNCHANGED <<storeVars, monVars, protoVars, embVars>>
EmbeddedFrame == UNCHANGED <<storeVars, monVars, protoVars, wireVars>>

(***************************************************************************)
(* TemperatureStore: the bodies of the operations, on the locked Vec       *)
(***************************************************************************)
\* add_reading, line 51: the eviction test
NeedsEvictOffByOne(rs, cap) == Len(rs) > cap
NeedsEvictAlways(rs, cap) == Len(rs) >= 1
NeedsEvict(rs, cap) == Len(rs) >= cap

\* Vec::remove(0) panics on an empty Vec (index out of bounds)
RemovePanics(rs) == Len(rs) = 0

\* Vec::remove(0): drops the first element, keeps the order of the rest
RemoveNewest(rs) == SubSeq(rs, 1, Len(rs) - 1)
RemoveFirst(rs) == Tail(rs)

\* Vec::push
Push(rs, r) == Append(rs, r)

\* readings.last().copied()
LastFirst(rs) == IF Len(rs) = 0 THEN None ELSE Some(rs[1])
LastCopied(rs) == IF Len(rs) = 0 THEN None ELSE Some(rs[Len(rs)])

\* the scan of calculate_stats, lines 75-88: acc = [min, max, sum]
RECURSIVE StatsScan(_, _, _)
StatsScan(rs, i, acc) ==
    IF i > Len(rs) THEN acc
    ELSE LET temp == rs[i].temperature
         IN  StatsScan(rs, i + 1,
                [min |-> IF temp < acc.min THEN temp ELSE acc.min,
                 max |-> IF temp > acc.max THEN temp ELSE acc.max,
                 sum |-> acc.sum + temp])

\* calculate_stats with min and max started at 0.0 instead of readings[0]
StatsFromZero(rs) ==
    IF Len(rs) = 0 THEN None
    ELSE LET acc == StatsScan(rs, 1, [min |-> 0, max |-> 0, sum |-> 0])
         IN  Some(TemperatureStats(acc.min, acc.max,
                                   Divide(acc.sum, Len(rs)), Len(rs)))

\* calculate_stats, lines 71-97
StatsOf(rs) ==
    IF Len(rs) = 0 THEN None
    ELSE LET acc == StatsScan(rs, 1, [min |-> rs[1].temperature,
                                      max |-> rs[1].temperature,
                                      sum |-> 0])
         IN  Some(TemperatureStats(acc.min, acc.max,
                                   Divide(acc.sum, Len(rs)), Len(rs)))

\* get_recent_readings, lines 115-120
RecentFromStart(rs, count) == SubSeq(rs, 1, IF Len(rs) > count THEN count ELSE Len(rs))
RecentOf(rs, count) ==
    LET start_index == IF Len(rs) > count THEN Len(rs) - count ELSE 0
    IN  SubSeq(rs, start_index + 1, Len(rs))

(***************************************************************************)
(* What the calls mean taken one at a time (the store's contract)          *)
(***************************************************************************)
MinOf(a, b) == IF a < b THEN a ELSE b

\* the last n elements of s, in order (n <= Len(s))
LastN(s, n) == [i \in 1..n |-> s[Len(s) - n + i]]

\* the last min(n, Len(s)) elements of s
Newest(s, n) == LastN(s, IF n < Len(s) THEN n ELSE Len(s))

RECURSIVE SumTemps(_)
SumTemps(rs) == IF rs = <<>> THEN 0 ELSE rs[1].temperature + SumTemps(Tail(rs))

TempsOf(rs) == {rs[i].temperature : i \in 1..Len(rs)}
LeastOf(S) == CHOOSE m \in S : \A x \in S : m <= x
GreatestOf(S) == CHOOSE m \in S : \A x \in S : m >= x

\* a fraction equal to sum / n
IsMean(avg, rs) == avg.den > 0 /\ avg.num * Len(rs) = SumTemps(rs) * avg.den

\* st is the statistics of the readings rs (absence when there are none)
IsStatsOf(st, rs) ==
    IF rs = <<>> THEN st = None
    ELSE /\ Len(st) = 1
         /\ st[1].min = LeastOf(TempsOf(rs))
         /\ st[1].max = GreatestOf(TempsOf(rs))
         /\ IsMean(st[1].average, rs)
         /\ st[1].count = Len(rs)

NoOp == [name |-> "none", reading |-> TemperatureReading(0, 0), count |-> 0]
CallOf(nm, r, n) == [name |-> nm, reading |-> r, count |-> n]

\* the sequence a call leaves, taken atomically on rs with capacity cap
\* (an add into a store of capacity 0 panics and leaves rs)
SeqAfter(op, rs, cap) ==
    CASE op.name = "add_reading" ->
            IF cap = 0 THEN rs
            ELSE LET all == Append(rs, op.reading)
                 IN  LastN(all, MinOf(cap, Len(all)))
      [] op.name = "clear" -> <<>>
      [] OTHER -> rs

\* the value a call returns, taken atomically on rs
SeqResult(op, rs) ==
    CASE op.name = "get_latest" ->
            IF rs = <<>> THEN None ELSE Some(rs[Len(rs)])
      [] op.name = "calculate_stats" ->
            IF rs = <<>> THEN None
            ELSE Some(TemperatureStats(LeastOf(TempsOf(rs)), GreatestOf(TempsOf(rs)),
                                       Divide(SumTemps(rs), Len(rs)), Len(rs)))
      [] op.name = "get_recent_readings" -> LastN(rs, MinOf(op.count, Len(rs)))
      [] OTHER -> None

(***************************************************************************)
(* TemperatureStore: threads calling through their handles                 *)
(***************************************************************************)
\* no monitor: the variables of temp_async stay as they are
MonitorParked ==
    /\ monPc = "none" /\ monAlive = FALSE /\ monStore = <<>> /\ monCapacity = 0
    /\ chanCap = 1
    /\ period = 0 /\ tickReady = FALSE /\ sensor = [temperature |-> 0, fail_next |-> FALSE]
    /\ now = 0 /\ reads = 0 /\ queue = <<>> /\ waiters = <<>>
    /\ cpc = [c \in Callers |-> "none"] /\ pending = [c \in Callers |-> NoCmd]
    /\ cslot = [c \in Callers |-> 0] /\ cres = [c \in Callers |-> NoResult]
    /\ slots = <<>> /\ calls = 0 /\ stopAt = ""

\* no handler: the variables of temp_protocol stay as they are
ProtocolParked ==
    /\ next_message_id = 0 /\ sensors = <<>> /\ store = <<>> /\ thresholds = <<>>
    /\ elapsed = 0 /\ request = <<>> /\ response = <<>> /\ sensor_reads = 0
    /\ created_ids = <<>> /\ answered = <<>>

\* nothing is being encoded: the wire variables stay as they are
WireParked == envelope = <<>> /\ wire = <<>> /\ decoded = <<>>

\* no embedded handler: the variables of temp_embedded stay as they are
EmbeddedParked ==
    /\ N = 0 /\ ereadings = <<>> /\ total_readings = 0 /\ sample_rate = 0
    /\ start_time = 0 /\ epanicked = FALSE /\ erequest = <<>> /\ eresponse = <<>>
    /\ eadds = 0 /\ eadded = <<>> /\ dyn = <<>>

\* no shared store: the variables of StoreSpec stay as they are
StoreParked ==
    /\ capacity = 0 /\ readings = <<>> /\ lockOwner = 0 /\ poisoned = FALSE
    /\ hcap = [t \in Threads |-> -1] /\ tpc = [t \in Threads |-> "idle"]
    /\ top = [t \in Threads |-> NoOp] /\ tres = [t \in Threads |-> None]
    /\ issued = {} /\ sinceClear = <<>> /\ linReadings = <<>>
    /\ texp = [t \in Threads |-> None]

\* TemperatureStore::new(capacity): one handle, an empty Vec, a free mutex
StoreInit ==
    /\ capacity \in Capacities
    /\ readings = <<>>
    /\ lockOwner = 0
    /\ poisoned = FALSE
    /\ hcap = [t \in Threads |-> IF t = 1 THEN capacity ELSE -1]
    /\ tpc = [t \in Threads |-> "idle"]
    /\ top = [t \in Threads |-> NoOp]
    /\ tres = [t \in Threads |-> None]
    /\ issued = {}
    /\ sinceClear = <<>>
    /\ linReadings = <<>>
    /\ texp = [t \in Threads |-> None]
    /\ MonitorParked
    /\ ProtocolParked
    /\ WireParked
    /\ EmbeddedParked

\* clone_handle: the capacity field of the new handle
CloneCapacity(cap) == cap

\* clone_handle, lines 137-142: thread u gets a handle cloned from t's
clone_handle(t, u) ==
    /\ StoreFrame
    /\ tpc[t] = "idle" /\ hcap[t] >= 0
    /\ hcap[u] = -1
    /\ hcap' = [hcap EXCEPT ![u] = CloneCapacity(hcap[t])]
    /\ UNCHANGED <<capacity, readings, lockOwner, poisoned, tpc, top, tres,
                   issued, sinceClear, linReadings, texp>>

\* Mutex::lock() returns only while no other guard is alive
CanLockAlways(t) == TRUE
CanLock(t) == lockOwner = 0

\* a thread calls op on its handle; the first statement of every operation is
\* self.readings.lock().unwrap(), which blocks while the mutex is held; on a
\* poisoned mutex lock() is an Err and unwrap() panics, dropping the guard
Enter(t, op) ==
    /\ StoreFrame
    /\ tpc[t] = "idle" /\ hcap[t] >= 0
    /\ CanLock(t)
    /\ IF poisoned
       THEN /\ tpc' = [tpc EXCEPT ![t] = "panicked"]
            /\ UNCHANGED <<lockOwner, top, linReadings, texp>>
       ELSE /\ tpc' = [tpc EXCEPT ![t] = "body"]
            /\ top' = [top EXCEPT ![t] = op]
            /\ lockOwner' = t
            /\ linReadings' = SeqAfter(op, linReadings, hcap[t])
            /\ texp' = [texp EXCEPT ![t] = SeqResult(op, linReadings)]
    /\ UNCHANGED <<capacity, readings, poisoned, hcap, tres, sinceClear>>

\* add_reading(reading), line 48; the reading is made by the caller (lines 13-24).
\* The store never compares readings, so the readings of a behaviour are given
\* distinct timestamps, which tells them apart in the histories.
add_reading(t, temp, ts) ==
    /\ ts \notin issued
    /\ issued' = issued \cup {ts}
    /\ Enter(t, CallOf("add_reading", TemperatureReading(temp, ts), 0))

\* get_latest(), line 58
get_latest(t) ==
    /\ Enter(t, CallOf("get_latest", NoOp.reading, 0))
    /\ UNCHANGED issued

\* calculate_stats(), line 68
calculate_stats(t) ==
    /\ Enter(t, CallOf("calculate_stats", NoOp.reading, 0))
    /\ UNCHANGED issued

\* get_recent_readings(count), line 113
get_recent_readings(t, count) ==
    /\ Enter(t, CallOf("get_recent_readings", NoOp.reading, count))
    /\ UNCHANGED issued

\* clear(), line 123
clear(t) ==
    /\ Enter(t, CallOf("clear", NoOp.reading, 0))
    /\ UNCHANGED issued

\* add_reading, lines 51-53: evict the oldest reading of a full store; remove(0)
\* on an empty Vec panics with the guard alive, which poisons the mutex
AddEvict(t) ==
    /\ StoreFrame
    /\ tpc[t] = "body" /\ top[t].name = "add_reading"
    /\ IF NeedsEvict(readings, hcap[t])
       THEN IF RemovePanics(readings)
            THEN /\ tpc' = [tpc EXCEPT ![t] = "panicked"]
                 /\ poisoned' = TRUE
                 /\ lockOwner' = 0
                 /\ UNCHANGED readings
            ELSE /\ readings' = RemoveFirst(readings)
                 /\ tpc' = [tpc EXCEPT ![t] = "push"]
                 /\ UNCHANGED <<poisoned, lockOwner>>
       ELSE /\ tpc' = [tpc EXCEPT ![t] = "push"]
            /\ UNCHANGED <<readings, poisoned, lockOwner>>
    /\ UNCHANGED <<capacity, hcap, top, tres, issued, sinceClear, linReadings, texp>>

\* add_reading, line 55
AddPush(t) ==
    /\ StoreFrame
    /\ tpc[t] = "push"
    /\ readings' = Push(readings, top[t].reading)
    /\ sinceClear' = Append(sinceClear, top[t].reading)
    /\ tpc' = [tpc EXCEPT ![t] = "ret"]
    /\ UNCHANGED <<capacity, lockOwner, poisoned, hcap, top, tres, issued,
                   linReadings, texp>>

\* the bodies of the reading calls, each one statement under the guard
ReadBody(t) ==
    /\ StoreFrame
    /\ tpc[t] = "body"
    /\ top[t].name \in {"get_latest", "calculate_stats", "get_recent_readings"}
    /\ tres' = [tres EXCEPT ![t] =
                  CASE top[t].name = "get_latest" -> LastCopied(readings)
                    [] top[t].name = "calculate_stats" -> StatsOf(readings)
                    [] OTHER -> RecentOf(readings, top[t].count)]
    /\ tpc' = [tpc EXCEPT ![t] = "ret"]
    /\ UNCHANGED <<capacity, readings, lockOwner, poisoned, hcap, top, issued,
                   sinceClear, linReadings, texp>>

\* clear, line 125
ClearBody(t) ==
    /\ StoreFrame
    /\ tpc[t] = "body" /\ top[t].name = "clear"
    /\ readings' = <<>>
    /\ sinceClear' = <<>>
    /\ tpc' = [tpc EXCEPT ![t] = "ret"]
    /\ UNCHANGED <<capacity, lockOwner, poisoned, hcap, top, tres, issued,
                   linReadings, texp>>

\* the call returns: the guard goes out of scope and the mutex is released;
\* the caller takes the returned value with it
Return(t) ==
    /\ StoreFrame
    /\ tpc[t] = "ret"
    /\ lockOwner' = 0
    /\ tpc' = [tpc EXCEPT ![t] = "idle"]
    /\ top' = [top EXCEPT ![t] = NoOp]
    /\ tres' = [tres EXCEPT ![t] = None]
    /\ texp' = [texp EXCEPT ![t] = None]
    /\ UNCHANGED <<capacity, readings, poisoned, hcap, issued,
                   sinceClear, linReadings>>

StoreNext ==
    \E t \in Threads :
        \/ \E u \in Threads : clone_handle(t, u)
        \/ \E temp \in Temps, ts \in 1..MaxAdds : add_reading(t, temp, ts)
        \/ get_latest(t)
        \/ calculate_stats(t)
        \/ \E count \in 0..MaxCount : get_recent_readings(t, count)
        \/ clear(t)
        \/ AddEvict(t)
        \/ AddPush(t)
        \/ ReadBody(t)
        \/ ClearBody(t)
        \/ Return(t)

(***************************************************************************)
(* temp_async: AsyncTemperatureMonitor, AsyncMockSensor, MonitorHandle     *)
(***************************************************************************)
\* mpsc::Sender clones alive: one per live handle and the monitor's own
\* command_tx field (line 81), which lives as long as the monitor
HandlesAlive == {c \in Callers : cpc[c] \in {"idle", "sending", "awaiting"}}
SenderCount == Cardinality(HandlesAlive) + (IF monAlive THEN 1 ELSE 0)

Running == monPc \in {"select", "read"}

\* TemperatureStore::add_reading as the monitor calls it, alone on its store
StoreAddPanics(rs, cap) == NeedsEvict(rs, cap) /\ RemovePanics(rs)
StoreAdd(rs, cap, r) == Push(IF NeedsEvict(rs, cap) THEN RemoveFirst(rs) ELSE rs, r)

\* run() is inside its loop, waiting at select! (line 104)
AtSelectOrStopped == monPc \in {"select", "stopped"}
AtSelectOrReading == monPc \in {"select", "read"}
AtSelect == monPc = "select"

\* tokio::time::interval(period) panics when period is zero
IntervalPanics(d) == d = 0

\* AsyncTemperatureMonitor::new(capacity), lines 85-92, and the sensor the
\* owner built for it (AsyncMockSensor::new, fail_next_read), lines 22-42
MonitorInit ==
    /\ monPc = "new"
    /\ monAlive = TRUE
    /\ monStore = <<>>
    /\ monCapacity \in Capacities
    /\ chanCap \in 1..ChannelCapacity
    /\ period = 0
    /\ tickReady = FALSE
    /\ sensor \in [temperature : SensorTemps, fail_next : BOOLEAN]
    /\ now = 0
    /\ reads = 0
    /\ queue = <<>>
    /\ waiters = <<>>
    /\ cpc = [c \in Callers |-> "none"]
    /\ pending = [c \in Callers |-> NoCmd]
    /\ cslot = [c \in Callers |-> 0]
    /\ cres = [c \in Callers |-> NoResult]
    /\ slots = <<>>
    /\ calls = 0
    /\ stopAt = ""
    /\ StoreParked
    /\ ProtocolParked
    /\ WireParked
    /\ EmbeddedParked

\* get_handle(), lines 94-98: needs &self, so it is called before run(), which
\* borrows the monitor mutably for as long as it runs
get_handle(c) ==
    /\ MonitorFrame
    /\ monAlive /\ monPc = "new"
    /\ cpc[c] = "none"
    /\ cpc' = [cpc EXCEPT ![c] = "idle"]
    /\ UNCHANGED <<monPc, monAlive, monStore, monCapacity, chanCap, period, tickReady, sensor,
                   now, queue, waiters, pending, cslot, cres, slots, stopAt, calls, reads>>

\* #[derive(Clone)] on MonitorHandle, line 147
clone(c, d) ==
    /\ MonitorFrame
    /\ cpc[c] \in {"idle", "sending", "awaiting"}
    /\ cpc[d] = "none"
    /\ cpc' = [cpc EXCEPT ![d] = "idle"]
    /\ UNCHANGED <<monPc, monAlive, monStore, monCapacity, chanCap, period, tickReady, sensor,
                   now, queue, waiters, pending, cslot, cres, slots, stopAt, calls, reads>>

\* a caller drops its handle
DropHandle(c) ==
    /\ MonitorFrame
    /\ cpc[c] = "idle"
    /\ cpc' = [cpc EXCEPT ![c] = "dropped"]
    /\ cres' = [cres EXCEPT ![c] = NoResult]
    /\ UNCHANGED <<monPc, monAlive, monStore, monCapacity, chanCap, period, tickReady, sensor,
                   now, queue, waiters, pending, cslot, slots, stopAt, calls, reads>>

\* run(sensor, initial_interval), lines 100-101: interval(initial_interval),
\* whose first tick is ready at once
run(initial_interval) ==
    /\ MonitorFrame
    /\ monAlive /\ monPc = "new"
    /\ IF IntervalPanics(initial_interval)
       THEN /\ monPc' = "panicked"
            /\ UNCHANGED <<period, tickReady>>
       ELSE /\ monPc' = "select"
            /\ period' = initial_interval
            /\ tickReady' = TRUE
    /\ UNCHANGED <<monAlive, monStore, monCapacity, chanCap, sensor, now, queue, waiters,
                   cpc, pending, cslot, cres, slots, stopAt, calls, reads>>

\* the period of sample_interval elapses: its next tick becomes ready
Elapse ==
    /\ MonitorFrame
    /\ Running /\ ~tickReady
    /\ tickReady' = TRUE
    /\ UNCHANGED <<monPc, monAlive, monStore, monCapacity, chanCap, period, sensor, now,
                   queue, waiters, cpc, pending, cslot, cres, slots, stopAt, calls, reads>>

\* select!, lines 105-106: the tick branch is taken and the sensor read starts
Tick ==
    /\ MonitorFrame
    /\ AtSelect /\ tickReady
    /\ reads < MaxReads
    /\ reads' = reads + 1
    /\ monPc' = "read"
    /\ tickReady' = FALSE
    /\ UNCHANGED <<monAlive, monStore, monCapacity, chanCap, period, sensor, now, queue,
                   waiters, cpc, pending, cslot, cres, slots, stopAt, calls>>

\* lines 54-63 and 106-115: the read completes; Ok(temp) is stored as a new
\* reading, Err is printed
SensorReadDone ==
    /\ MonitorFrame
    /\ monPc = "read"
    /\ IF sensor.fail_next
       THEN /\ sensor' = [sensor EXCEPT !.fail_next = FALSE]
            /\ monPc' = "select"
            /\ UNCHANGED <<monStore, now>>
       ELSE /\ now' = now + 1
            /\ UNCHANGED sensor
            /\ IF StoreAddPanics(monStore, monCapacity)
               THEN monPc' = "panicked" /\ UNCHANGED monStore
               ELSE /\ monPc' = "select"
                    /\ monStore' = StoreAdd(monStore, monCapacity,
                                       TemperatureReading(sensor.temperature, now + 1))
    /\ UNCHANGED <<monAlive, monCapacity, chanCap, period, tickReady, queue, waiters,
                   cpc, pending, cslot, cres, slots, stopAt, calls, reads>>

\* reply.send(v), lines 126 and 130: delivered unless the receiver is gone
ReplySendNothing(sl, v) ==
    IF sl.state = "open" THEN Oneshot("sent", None, sl.sends + 1)
    ELSE Oneshot(sl.state, sl.value, sl.sends + 1)
ReplySend(sl, v) ==
    IF sl.state = "open" THEN Oneshot("sent", v, sl.sends + 1)
    ELSE Oneshot(sl.state, sl.value, sl.sends + 1)

\* recv() yields None once the buffer is empty and no Sender is left
RecvReady == queue # <<>> \/ SenderCount = 0

\* where run() is after the command: Stop and None break out of the loop
AfterCommandNeverStops(cmd) == "select"
AfterCommand(cmd) ==
    IF cmd.kind \in {"Stop", "none"} THEN "stopped"
    ELSE IF cmd.kind = "SetInterval" /\ IntervalPanics(cmd.duration) THEN "panicked"
    ELSE "select"

\* the recv branch with the reply sent as reply.send(..).unwrap()
RecvCommandUnwrap ==
    /\ MonitorFrame
    /\ AtSelect /\ RecvReady
    /\ LET cmd == IF queue = <<>> THEN NoCmd ELSE Head(queue)
       IN  /\ queue' = IF queue = <<>> THEN queue ELSE Tail(queue)
           /\ monPc' = IF /\ cmd.kind \in {"GetStats", "GetLatest"}
                          /\ slots[cmd.reply].state # "open"
                       THEN "panicked"
                       ELSE AfterCommand(cmd)
           /\ IF cmd.kind = "SetInterval" /\ ~IntervalPanics(cmd.duration)
              THEN period' = cmd.duration /\ tickReady' = TRUE
              ELSE UNCHANGED <<period, tickReady>>
           /\ slots' =
                CASE cmd.kind = "GetStats" ->
                        [slots EXCEPT ![cmd.reply] = ReplySend(@, StatsOf(monStore))]
                  [] cmd.kind = "GetLatest" ->
                        [slots EXCEPT ![cmd.reply] = ReplySend(@, LastCopied(monStore))]
                  [] OTHER -> slots
           /\ stopAt' = IF cmd.kind = "Stop" THEN cmd.at ELSE stopAt
    /\ UNCHANGED <<monAlive, monStore, monCapacity, chanCap, sensor, now, waiters,
                   cpc, pending, cslot, cres, calls, reads>>

\* the recv branch with Stop given priority over the commands ahead of it
RecvCommandStopFirst ==
    /\ MonitorFrame
    /\ AtSelect /\ RecvReady
    /\ LET stops == {i \in 1..Len(queue) : queue[i].kind = "Stop"}
           at == IF stops = {} THEN 1 ELSE CHOOSE i \in stops : TRUE
           cmd == IF queue = <<>> THEN NoCmd ELSE queue[at]
       IN  /\ queue' = IF queue = <<>> THEN queue
                       ELSE SubSeq(queue, 1, at - 1) \o SubSeq(queue, at + 1, Len(queue))
           /\ monPc' = AfterCommand(cmd)
           /\ IF cmd.kind = "SetInterval" /\ ~IntervalPanics(cmd.duration)
              THEN period' = cmd.duration /\ tickReady' = TRUE
              ELSE UNCHANGED <<period, tickReady>>
           /\ slots' =
                CASE cmd.kind = "GetStats" ->
                        [slots EXCEPT ![cmd.reply] = ReplySend(@, StatsOf(monStore))]
                  [] cmd.kind = "GetLatest" ->
                        [slots EXCEPT ![cmd.reply] = ReplySend(@, LastCopied(monStore))]
                  [] OTHER -> slots
           /\ stopAt' = IF cmd.kind = "Stop" THEN cmd.at ELSE stopAt
    /\ UNCHANGED <<monAlive, monStore, monCapacity, chanCap, sensor, now, waiters,
                   cpc, pending, cslot, cres, calls, reads>>

\* select!, lines 118-141: the recv branch is taken and the command handled
RecvCommand ==
    /\ MonitorFrame
    /\ AtSelect /\ RecvReady
    /\ LET cmd == IF queue = <<>> THEN NoCmd ELSE Head(queue)
       IN  /\ queue' = IF queue = <<>> THEN queue ELSE Tail(queue)
           /\ monPc' = AfterCommand(cmd)
           /\ IF cmd.kind = "SetInterval" /\ ~IntervalPanics(cmd.duration)
              THEN period' = cmd.duration /\ tickReady' = TRUE
              ELSE UNCHANGED <<period, tickReady>>
           /\ slots' =
                CASE cmd.kind = "GetStats" ->
                        [slots EXCEPT ![cmd.reply] = ReplySend(@, StatsOf(monStore))]
                  [] cmd.kind = "GetLatest" ->
                        [slots EXCEPT ![cmd.reply] = ReplySend(@, LastCopied(monStore))]
                  [] OTHER -> slots
           /\ stopAt' = IF cmd.kind = "Stop" THEN cmd.at ELSE stopAt
    /\ UNCHANGED <<monAlive, monStore, monCapacity, chanCap, sensor, now, waiters,
                   cpc, pending, cslot, cres, calls, reads>>

\* the owner drops the monitor once run() has returned or unwound: the Receiver
\* goes, and with it the buffered commands and their reply senders
DropMonitor ==
    /\ MonitorFrame
    /\ monAlive /\ monPc \in {"stopped", "panicked"}
    /\ monAlive' = FALSE
    /\ queue' = <<>>
    /\ slots' = [i \in 1..Len(slots) |->
                    IF /\ slots[i].state \in {"open", "abandoned"}
                       /\ \E j \in 1..Len(queue) : queue[j].reply = i
                    THEN Oneshot("dead", <<>>, slots[i].sends)
                    ELSE slots[i]]
    /\ UNCHANGED <<monPc, monStore, monCapacity, chanCap, period, tickReady, sensor, now,
                   waiters, cpc, pending, cslot, cres, stopAt, calls, reads>>

\* the channel (mpsc::channel(capacity), line 86) has a free place
HasRoomOffByOne == Len(queue) <= chanCap
HasRoom == Len(queue) < chanCap

\* the command as it enters the channel
Stamped(cmd) == [cmd EXCEPT !.at = IF Running THEN "running" ELSE monPc]

\* Sender::send(cmd).await, first poll: Err when the Receiver is gone, buffered
\* when the channel has room and nobody waits, suspended otherwise
Send(c, cmd, next) ==
    /\ MonitorFrame
    /\ cpc[c] = "idle"
    /\ calls < MaxCalls
    /\ calls' = calls + 1
    /\ IF ~monAlive
       THEN /\ cres' = [cres EXCEPT ![c] = SendError]
            /\ UNCHANGED <<queue, waiters, cpc, pending>>
       ELSE IF HasRoom /\ waiters = <<>>
       THEN /\ queue' = Append(queue, Stamped(cmd))
            /\ cpc' = [cpc EXCEPT ![c] = next]
            /\ cres' = [cres EXCEPT ![c] = IF next = "idle" THEN OkResult ELSE NoResult]
            /\ UNCHANGED <<waiters, pending>>
       ELSE /\ waiters' = Append(waiters, c)
            /\ pending' = [pending EXCEPT ![c] = cmd]
            /\ cpc' = [cpc EXCEPT ![c] = "sending"]
            /\ cres' = [cres EXCEPT ![c] = NoResult]
            /\ UNCHANGED queue
    /\ UNCHANGED <<monPc, monAlive, monStore, monCapacity, chanCap, period, tickReady,
                   sensor, now, reads, stopAt>>

\* set_interval(interval), lines 153-155
MonitorHandle_set_interval(c, d) ==
    /\ Send(c, SetIntervalCmd(d), "idle")
    /\ UNCHANGED <<cslot, slots>>

\* stop(), lines 169-171
MonitorHandle_stop(c) ==
    /\ Send(c, StopCmd, "idle")
    /\ UNCHANGED <<cslot, slots>>

\* get_stats() and get_latest(), lines 157-167: a fresh oneshot channel, its
\* sender inside the command; a failed send drops the command and so the sender
Query(c, kind) ==
    /\ Send(c, MonitorCommand(kind, 0, Len(slots) + 1), "awaiting")
    /\ slots' = Append(slots, Oneshot(IF monAlive THEN "open" ELSE "dead", <<>>, 0))
    /\ cslot' = [cslot EXCEPT ![c] = IF monAlive THEN Len(slots) + 1 ELSE 0]

MonitorHandle_get_stats(c) == Query(c, "GetStats")

MonitorHandle_get_latest(c) == Query(c, "GetLatest")

\* a suspended send gets the freed place, oldest waiter first
SendResume(c) ==
    /\ MonitorFrame
    /\ cpc[c] = "sending" /\ monAlive
    /\ waiters # <<>> /\ Head(waiters) = c
    /\ HasRoom
    /\ queue' = Append(queue, [Stamped(pending[c]) EXCEPT !.waited = TRUE])
    /\ waiters' = Tail(waiters)
    /\ pending' = [pending EXCEPT ![c] = NoCmd]
    /\ cpc' = [cpc EXCEPT ![c] = IF pending[c].reply = 0 THEN "idle" ELSE "awaiting"]
    /\ cres' = [cres EXCEPT ![c] = IF pending[c].reply = 0 THEN OkResult ELSE NoResult]
    /\ UNCHANGED <<monPc, monAlive, monStore, monCapacity, chanCap, period, tickReady,
                   sensor, now, cslot, slots, stopAt, calls, reads>>

\* a suspended send fails when the Receiver is dropped
SendFail(c) ==
    /\ MonitorFrame
    /\ cpc[c] = "sending" /\ ~monAlive
    /\ waiters' = SelectSeq(waiters, LAMBDA w : w # c)
    /\ pending' = [pending EXCEPT ![c] = NoCmd]
    /\ cpc' = [cpc EXCEPT ![c] = "idle"]
    /\ cres' = [cres EXCEPT ![c] = SendError]
    /\ cslot' = [cslot EXCEPT ![c] = 0]
    /\ slots' = IF cslot[c] = 0 THEN slots
                ELSE [slots EXCEPT ![cslot[c]] = Oneshot("dead", <<>>, @.sends)]
    /\ UNCHANGED <<monPc, monAlive, monStore, monCapacity, chanCap, period, tickReady,
                   sensor, now, queue, stopAt, calls, reads>>

\* rx.await, lines 160 and 166: the reply, or RecvError when the sender was
\* dropped without replying
RecvReply(c) ==
    /\ MonitorFrame
    /\ cpc[c] = "awaiting"
    /\ slots[cslot[c]].state \in {"sent", "dead"}
    /\ cres' = [cres EXCEPT ![c] = IF slots[cslot[c]].state = "sent"
                                   THEN OkResult
                                   ELSE RecvError]
    /\ slots' = [slots EXCEPT ![cslot[c]] =
                    IF @.state = "sent" THEN Oneshot("taken", @.value, @.sends) ELSE @]
    /\ cslot' = [cslot EXCEPT ![c] = 0]
    /\ cpc' = [cpc EXCEPT ![c] = "idle"]
    /\ UNCHANGED <<monPc, monAlive, monStore, monCapacity, chanCap, period, tickReady,
                   sensor, now, queue, waiters, pending, stopAt, calls, reads>>

\* the caller gives up waiting for the reply and drops the receiver
Abandon(c) ==
    /\ MonitorFrame
    /\ cpc[c] = "awaiting"
    /\ slots' = [slots EXCEPT ![cslot[c]] =
                    IF @.state = "open" THEN Oneshot("abandoned", <<>>, @.sends) ELSE @]
    /\ cslot' = [cslot EXCEPT ![c] = 0]
    /\ cpc' = [cpc EXCEPT ![c] = "idle"]
    /\ cres' = [cres EXCEPT ![c] = NoResult]
    /\ UNCHANGED <<monPc, monAlive, monStore, monCapacity, chanCap, period, tickReady,
                   sensor, now, queue, waiters, pending, stopAt, calls, reads>>

MonitorNext ==
    \/ \E d \in Durations : run(d)
    \/ Elapse
    \/ Tick
    \/ SensorReadDone
    \/ RecvCommand
    \/ DropMonitor
    \/ \E c \in Callers :
        \/ get_handle(c)
        \/ \E d \in Callers : clone(c, d)
        \/ DropHandle(c)
        \/ \E d \in Durations : MonitorHandle_set_interval(c, d)
        \/ MonitorHandle_stop(c)
        \/ MonitorHandle_get_stats(c)
        \/ MonitorHandle_get_latest(c)
        \/ SendResume(c)
        \/ SendFail(c)
        \/ RecvReply(c)
        \/ Abandon(c)

(***************************************************************************)
(* temp_protocol: TemperatureProtocolHandler                               *)
(***************************************************************************)
\* the sensors new() registers and their temperatures, lines 132-137
\* (23.5, 21.8 and 25.1 degrees, in tenths of a degree)
BaseTemperature ==
    [id \in {"temp_01", "temp_02", "temp_03"} |->
        CASE id = "temp_01" -> 235 [] id = "temp_02" -> 218 [] OTHER -> 251]

\* the sensor ids, threshold bounds and calibration values the commands carry
SensorIds == {"temp_01", "temp_99"}
\* the ids readings, history and statistics are asked for: a second registered
\* sensor besides
QueriedIds == SensorIds \cup {"temp_02"}
ThresholdTemps == {150, 300}
\* the temperature a sensor is calibrated to: below every threshold set
ActualTemps == {140}
Versions == 0..MaxVersion
MessageIds == 0..MaxId

\* MockTemperatureSensor::new(id, temperature), mock.rs lines 29-36
MockTemperatureSensorFailing(id, temperature) ==
    [id |-> id, temperature |-> temperature, fail_next |-> TRUE, offline |-> FALSE]
MockTemperatureSensor(id, temperature) ==
    [id |-> id, temperature |-> temperature, fail_next |-> FALSE, offline |-> FALSE]

\* MockTemperatureSensor::read_temperature, mock.rs lines 58-69: the result and
\* the sensor as the call leaves it
read_temperature(sn) ==
    IF sn.offline THEN [ok |-> FALSE, temp |-> 0, sensor |-> sn]
    ELSE IF sn.fail_next
    THEN [ok |-> FALSE, temp |-> 0, sensor |-> [sn EXCEPT !.fail_next = FALSE]]
    ELSE [ok |-> TRUE, temp |-> sn.temperature, sensor |-> sn]

\* MockTemperatureSensor::set_base_temperature, mock.rs lines 42-44
set_base_temperature_keeps(sn, temp) == sn
set_base_temperature(sn, temp) == [sn EXCEPT !.temperature = temp]

\* Command, lines 7-28
GetStatus == [type |-> "GetStatus"]
GetReading(sensor_id) == [type |-> "GetReading", sensor_id |-> sensor_id]
SetThreshold(sensor_id, min_temp, max_temp) ==
    [type |-> "SetThreshold", sensor_id |-> sensor_id,
     min_temp |-> min_temp, max_temp |-> max_temp]
GetHistory(sensor_id, last_n) ==
    [type |-> "GetHistory", sensor_id |-> sensor_id, last_n |-> last_n]
GetStats(sensor_id) == [type |-> "GetStats", sensor_id |-> sensor_id]
Calibrate(sensor_id, actual_temp) ==
    [type |-> "Calibrate", sensor_id |-> sensor_id, actual_temp |-> actual_temp]

\* Response, lines 31-63 (active_sensors is kept as the set of the keys: the
\* order of HashMap::keys() is not specified)
Status(active_sensors, uptime_seconds, readings_count) ==
    [type |-> "Status", active_sensors |-> active_sensors,
     uptime_seconds |-> uptime_seconds, readings_count |-> readings_count]
Reading(sensor_id, temperature, timestamp) ==
    [type |-> "Reading", sensor_id |-> sensor_id,
     temperature |-> temperature, timestamp |-> timestamp]
ThresholdSet(sensor_id, min_temp, max_temp) ==
    [type |-> "ThresholdSet", sensor_id |-> sensor_id,
     min_temp |-> min_temp, max_temp |-> max_temp]
History(sensor_id, rs) == [type |-> "History", sensor_id |-> sensor_id, readings |-> rs]
Stats(sensor_id, stats) == [type |-> "Stats", sensor_id |-> sensor_id, stats |-> stats]
CalibrationComplete(sensor_id, offset_adjustment) ==
    [type |-> "CalibrationComplete", sensor_id |-> sensor_id,
     offset_adjustment |-> offset_adjustment]
Error(code, message) == [type |-> "Error", code |-> code, message |-> message]

\* MessagePayload, lines 73-76, and ProtocolMessage, lines 66-70
CommandPayload(command) == [tag |-> "Command", body |-> command]
ResponsePayload(resp) == [tag |-> "Response", body |-> resp]
ProtocolMessage(version, id, payload) ==
    [version |-> version, id |-> id, payload |-> payload]

\* no envelope: the caller holds none
NoMessage == ProtocolMessage(0, 0, [tag |-> "None", body |-> [type |-> "None"]])

\* ProtocolError, lines 79-86
InvalidSensorIdAsThreshold(sensor_id) ==
    [error |-> "InvalidThreshold", min |-> 0, max |-> 0, reason |-> sensor_id]
InvalidSensorId(sensor_id) == [error |-> "InvalidSensorId", sensor_id |-> sensor_id]
SensorNotResponding(sensor_id) ==
    [error |-> "SensorNotResponding", sensor_id |-> sensor_id]
InvalidThreshold(min, max, reason) ==
    [error |-> "InvalidThreshold", min |-> min, max |-> max, reason |-> reason]
CalibrationFailed(sensor_id, reason) ==
    [error |-> "CalibrationFailed", sensor_id |-> sensor_id, reason |-> reason]
ProtocolVersionMismatch(expected, received) ==
    [error |-> "ProtocolVersionMismatch", expected |-> expected, received |-> received]

\* format!(..): the format string and its arguments
Format(text, args) == [format |-> text, args |-> args]

\* ProtocolError::to_response, lines 89-116
to_response(e) ==
    CASE e.error = "InvalidSensorId" ->
            Error(404, Format("Sensor '{}' not found", <<e.sensor_id>>))
      [] e.error = "SensorNotResponding" ->
            Error(503, Format("Sensor '{}' is not responding", <<e.sensor_id>>))
      [] e.error = "InvalidThreshold" ->
            Error(400, Format("Invalid threshold min={}, max={}: {}",
                              <<e.min, e.max, e.reason>>))
      [] e.error = "CalibrationFailed" ->
            Error(422, Format("Calibration failed for '{}': {}",
                              <<e.sensor_id, e.reason>>))
      [] e.error = "SystemError" -> Error(e.code, e.details)
      [] e.error = "ProtocolVersionMismatch" ->
            Error(505, Format("Protocol version mismatch: expected {}, got {}",
                              <<e.expected, e.received>>))

\* the commands and envelopes given to the handler
Commands ==
    {GetStatus}
    \cup {GetReading(sid) : sid \in QueriedIds}
    \cup {SetThreshold(sid, mn, mx) :
            sid \in SensorIds, mn \in ThresholdTemps, mx \in ThresholdTemps}
    \cup {GetHistory(sid, n) : sid \in QueriedIds, n \in 0..MaxLastN}
    \cup {GetStats(sid) : sid \in QueriedIds}
    \cup {Calibrate(sid, t) : sid \in SensorIds, t \in ActualTemps}

ResponseInputs ==
    {Error(404, Format("Sensor '{}' not found", <<"temp_01">>)),
     ThresholdSet("temp_01", 150, 300)}

Messages ==
    {ProtocolMessage(v, id, CommandPayload(c)) :
        v \in Versions, id \in MessageIds, c \in Commands}
    \cup {ProtocolMessage(v, id, ResponsePayload(r)) :
        v \in Versions, id \in MessageIds, r \in ResponseInputs}

\* TemperatureProtocolHandler::new(), lines 128-146
ProtocolInit ==
    /\ next_message_id = 1
    /\ sensors = [id \in DOMAIN BaseTemperature |->
                    MockTemperatureSensor(id, BaseTemperature[id])]
    /\ store = <<>>
    /\ thresholds = <<>>
    /\ elapsed = 0
    /\ request = NoMessage
    /\ response = NoMessage
    /\ sensor_reads = 0
    /\ created_ids = <<>>
    /\ answered = <<>>
    /\ StoreParked
    /\ MonitorParked
    /\ WireParked
    /\ EmbeddedParked

\* create_command with the counter advanced before the id is taken
create_command_preincrement(command) ==
    /\ ProtocolFrame
    /\ request = NoMessage
    /\ next_message_id <= MaxCreated
    /\ next_message_id' = next_message_id + 1
    /\ request' = ProtocolMessage(1, next_message_id + 1, CommandPayload(command))
    /\ response' = NoMessage
    /\ created_ids' = Append(created_ids, next_message_id + 1)
    /\ UNCHANGED <<sensors, store, thresholds, elapsed, sensor_reads, answered>>

\* create_command(command), lines 148-157
create_command(command) ==
    /\ ProtocolFrame
    /\ request = NoMessage
    /\ next_message_id <= MaxCreated
    /\ next_message_id' = next_message_id + 1
    /\ request' = ProtocolMessage(1, next_message_id, CommandPayload(command))
    /\ response' = NoMessage
    /\ created_ids' = Append(created_ids, next_message_id)
    /\ UNCHANGED <<sensors, store, thresholds, elapsed, sensor_reads, answered>>

\* create_response(request_id, response), lines 159-165
create_response_id_zero(request_id, resp) ==
    ProtocolMessage(1, 0, ResponsePayload(resp))
create_response(request_id, resp) ==
    ProtocolMessage(1, request_id, ResponsePayload(resp))

\* process_command, line 169: the one supported version
VersionAtLeastOne(version) == version >= 1
VersionSupported(version) == version = 1

\* sensors.contains_key(id), sensors.get_mut(id).is_some()
RegisteredFirstOnly(sensor_id) == sensor_id = "temp_01"
Registered(sensor_id) == sensor_id \in DOMAIN sensors

\* SetThreshold, line 224
ThresholdInvalidStrict(min_temp, max_temp) == min_temp > max_temp
ThresholdInvalid(min_temp, max_temp) == min_temp >= max_temp

\* SetThreshold, lines 224-236: the error the command is rejected with, if any
ThresholdRejectionRangeOnly(sensor_id, min_temp, max_temp) ==
    IF ThresholdInvalid(min_temp, max_temp)
    THEN Some(InvalidThreshold(min_temp, max_temp,
                "Min temperature must be less than max temperature"))
    ELSE None
ThresholdRejection(sensor_id, min_temp, max_temp) ==
    IF ThresholdInvalid(min_temp, max_temp)
    THEN Some(InvalidThreshold(min_temp, max_temp,
                "Min temperature must be less than max temperature"))
    ELSE IF ~Registered(sensor_id) THEN Some(InvalidSensorId(sensor_id))
    ELSE None

\* HashMap::insert
Insert(map, key, value) ==
    [k \in DOMAIN map \cup {key} |-> IF k = key THEN value ELSE map[k]]

\* TemperatureStore::get_stats, temp_store lines 100-107
get_stats(rs) ==
    IF StatsOf(rs) = None THEN TemperatureStats(0, 0, Divide(0, 1), 0)
    ELSE StatsOf(rs)[1]

\* what handle_command returns and the fields of the handler as it leaves
\* them; reads counts the read_temperature calls the arm made
Outcome(resp, sn, st, th) ==
    [response |-> resp, sensors |-> sn, store |-> st, thresholds |-> th, reads |-> 0]
\* the arm called sensor.read_temperature() on its way, lines 202 and 271
AfterRead(out) == [out EXCEPT !.reads = @ + 1]
RejectedAfterReset(e) == Outcome(to_response(e), sensors, <<>>, <<>>)
Rejected(e) == Outcome(to_response(e), sensors, store, thresholds)
AnsweredDraining(resp) == Outcome(resp, sensors, <<>>, thresholds)
Answered(resp) == Outcome(resp, sensors, store, thresholds)

\* handle_command, lines 190-296 (the store has capacity 100, so add_reading
\* never meets an empty Vec to evict from)
handle_command(command) ==
    CASE command.type = "GetStatus" ->
            Answered(Status(DOMAIN sensors, elapsed, Len(store)))
      [] command.type = "GetReading" ->
            IF Registered(command.sensor_id)
            THEN LET rd == read_temperature(sensors[command.sensor_id])
                     sn == [sensors EXCEPT ![command.sensor_id] = rd.sensor]
                     reading == TemperatureReading(rd.temp, elapsed)
                 IN  AfterRead(
                     IF rd.ok
                     THEN Outcome(Reading(command.sensor_id, rd.temp, reading.timestamp),
                                  sn, StoreAdd(store, HandlerCapacity, reading), thresholds)
                     ELSE Outcome(to_response(SensorNotResponding(command.sensor_id)),
                                  sn, store, thresholds))
            ELSE Rejected(InvalidSensorId(command.sensor_id))
      [] command.type = "SetThreshold" ->
            LET rej == ThresholdRejection(command.sensor_id, command.min_temp,
                                          command.max_temp)
            IN  IF rej # None THEN Rejected(rej[1])
                ELSE Outcome(ThresholdSet(command.sensor_id, command.min_temp,
                                          command.max_temp),
                             sensors, store,
                             Insert(thresholds, command.sensor_id,
                                    <<command.min_temp, command.max_temp>>))
      [] command.type = "GetHistory" ->
            IF ~Registered(command.sensor_id)
            THEN Rejected(InvalidSensorId(command.sensor_id))
            ELSE Answered(History(command.sensor_id, RecentOf(store, command.last_n)))
      [] command.type = "GetStats" ->
            IF ~Registered(command.sensor_id)
            THEN Rejected(InvalidSensorId(command.sensor_id))
            ELSE Answered(Stats(command.sensor_id, get_stats(store)))
      [] command.type = "Calibrate" ->
            IF Registered(command.sensor_id)
            THEN LET rd == read_temperature(sensors[command.sensor_id])
                     offset == command.actual_temp - rd.temp
                 IN  AfterRead(
                     IF rd.ok
                     THEN Outcome(CalibrationComplete(command.sensor_id, offset),
                                  [sensors EXCEPT ![command.sensor_id] =
                                      set_base_temperature(rd.sensor, command.actual_temp)],
                                  store, thresholds)
                     ELSE Outcome(to_response(CalibrationFailed(command.sensor_id,
                                      "Sensor not responding during calibration")),
                                  [sensors EXCEPT ![command.sensor_id] = rd.sensor],
                                  store, thresholds))
            ELSE Rejected(InvalidSensorId(command.sensor_id))

\* process_command with a Response payload sent back as the answer
process_command_echo(message) ==
    /\ ProtocolFrame
    /\ response = NoMessage
    /\ request = NoMessage \/ request = message
    /\ request' = message
    /\ IF ~VersionSupported(message.version)
       THEN /\ response' = create_response(message.id,
                                to_response(ProtocolVersionMismatch(1, message.version)))
            /\ sensor_reads' = 0
            /\ UNCHANGED <<sensors, store, thresholds>>
       ELSE IF message.payload.tag = "Command"
       THEN LET out == handle_command(message.payload.body)
            IN  /\ response' = create_response(message.id, out.response)
                /\ sensors' = out.sensors
                /\ store' = out.store
                /\ thresholds' = out.thresholds
                /\ sensor_reads' = out.reads
       ELSE /\ response' = create_response(message.id, message.payload.body)
            /\ sensor_reads' = 0
            /\ UNCHANGED <<sensors, store, thresholds>>
    /\ answered' = IF response'.payload.body.type = "Reading"
                   THEN Newest(Append(answered,
                               TemperatureReading(response'.payload.body.temperature,
                                                  response'.payload.body.timestamp)),
                               MaxAnswered)
                   ELSE answered
    /\ UNCHANGED <<next_message_id, elapsed, created_ids>>

\* process_command(message), lines 167-188
process_command(message) ==
    /\ ProtocolFrame
    /\ response = NoMessage
    /\ request = NoMessage \/ request = message
    /\ request' = message
    /\ IF ~VersionSupported(message.version)
       THEN /\ response' = create_response(message.id,
                                to_response(ProtocolVersionMismatch(1, message.version)))
            /\ sensor_reads' = 0
            /\ UNCHANGED <<sensors, store, thresholds>>
       ELSE IF message.payload.tag = "Command"
       THEN LET out == handle_command(message.payload.body)
            IN  /\ response' = create_response(message.id, out.response)
                /\ sensors' = out.sensors
                /\ store' = out.store
                /\ thresholds' = out.thresholds
                /\ sensor_reads' = out.reads
       ELSE /\ response' = create_response(message.id,
                                Error(400, "Cannot process response messages"))
            /\ sensor_reads' = 0
            /\ UNCHANGED <<sensors, store, thresholds>>
    /\ answered' = IF response'.payload.body.type = "Reading"
                   THEN Newest(Append(answered,
                               TemperatureReading(response'.payload.body.temperature,
                                                  response'.payload.body.timestamp)),
                               MaxAnswered)
                   ELSE answered
    /\ UNCHANGED <<next_message_id, elapsed, created_ids>>

\* the caller is done with the envelopes of its last call
Take ==
    /\ ProtocolFrame
    /\ request # NoMessage
    /\ request' = NoMessage
    /\ response' = NoMessage
    /\ sensor_reads' = 0
    /\ UNCHANGED <<next_message_id, sensors, store, thresholds, elapsed,
                   created_ids, answered>>

\* a second passes between two calls
Advance ==
    /\ ProtocolFrame
    /\ request = NoMessage
    /\ elapsed < MaxElapsed
    /\ elapsed' = elapsed + 1
    /\ UNCHANGED <<next_message_id, sensors, store, thresholds, request, response,
                   sensor_reads, created_ids, answered>>

ProtocolNext ==
    \/ \E command \in Commands : create_command(command)
    \/ \E message \in Messages : process_command(message)
    \/ Take
    \/ Advance

(***************************************************************************)
(* temp_protocol: the wire forms of a ProtocolMessage                      *)
(* serde's derived Serialize / Deserialize of the envelope types, written  *)
(* by serde_json as a tree of objects (fields by name, variants by name)   *)
(* and by postcard as a flat run of values (fields by position, variants   *)
(* by index, sequences behind their length).                               *)
(***************************************************************************)
\* the variants of an enum in declaration order: MessagePayload lines 73-76,
\* Command lines 7-28, Response lines 31-63
VariantsOf(enum) ==
    CASE enum = "MessagePayload" -> <<"Command", "Response">>
      [] enum = "Command" ->
            <<"GetStatus", "GetReading", "SetThreshold", "GetHistory", "GetStats",
              "Calibrate">>
      [] enum = "Response" ->
            <<"Status", "Reading", "ThresholdSet", "History", "Stats",
              "CalibrationComplete", "Error">>
      [] OTHER -> <<>>

\* the fields of a variant in declaration order, lines 7-28 and 31-63
FieldsOf(variant) ==
    CASE variant \in {"GetReading", "GetStats"} -> <<"sensor_id">>
      [] variant \in {"SetThreshold", "ThresholdSet"} ->
            <<"sensor_id", "min_temp", "max_temp">>
      [] variant = "GetHistory" -> <<"sensor_id", "last_n">>
      [] variant = "Calibrate" -> <<"sensor_id", "actual_temp">>
      [] variant = "Status" -> <<"active_sensors", "uptime_seconds", "readings_count">>
      [] variant = "Reading" -> <<"sensor_id", "temperature", "timestamp">>
      [] variant = "History" -> <<"sensor_id", "readings">>
      [] variant = "Stats" -> <<"sensor_id", "stats">>
      [] variant = "CalibrationComplete" -> <<"sensor_id", "offset_adjustment">>
      [] variant = "Error" -> <<"code", "message">>
      [] OTHER -> <<>>

\* the type of a field: Vec<String>, Vec<TemperatureReading>, TemperatureStats,
\* or a number or String
FieldKind(field) ==
    CASE field = "active_sensors" -> "strings"
      [] field = "readings" -> "readings"
      [] field = "stats" -> "stats"
      [] OTHER -> "scalar"

Range(f) == {f[i] : i \in DOMAIN f}

\* a Vec holding the elements of a set, in some order
RECURSIVE SeqOfSet(_)
SeqOfSet(S) ==
    IF S = {} THEN <<>>
    ELSE LET x == CHOOSE y \in S : TRUE IN <<x>> \o SeqOfSet(S \ {x})

\* Result<T, E>
Ok(v) == [ok |-> TRUE, value |-> v]
Err == [ok |-> FALSE]

\* ---- serde_json::to_string, line 299 ------------------------------------
\* a JSON number or string
Atom(v) == [atom |-> v]
IsAtom(j) == DOMAIN j = {"atom"}

\* TemperatureReading { temperature: Temperature { celsius }, timestamp }
ReadingToJson(r) ==
    [temperature |-> [celsius |-> Atom(r.temperature)], timestamp |-> Atom(r.timestamp)]

FieldToJson(field, v) ==
    CASE FieldKind(field) = "strings" ->
            [array |-> [i \in 1..Cardinality(v) |-> Atom(SeqOfSet(v)[i])]]
      [] FieldKind(field) = "readings" ->
            [array |-> [i \in DOMAIN v |-> ReadingToJson(v[i])]]
      [] FieldKind(field) = "stats" ->
            [min |-> [celsius |-> Atom(v.min)], max |-> [celsius |-> Atom(v.max)],
             average |-> [celsius |-> Atom(v.average)], count |-> Atom(v.count)]
      [] OTHER -> Atom(v)

\* an enum value: "Name" for a unit variant, {"Name": {fields}} otherwise
VariantToJson(body) ==
    IF FieldsOf(body.type) = <<>> THEN Atom(body.type)
    ELSE body.type :> [f \in Range(FieldsOf(body.type)) |-> FieldToJson(f, body[f])]

to_string(message) ==
    [version |-> Atom(message.version), id |-> Atom(message.id),
     payload |-> message.payload.tag :> VariantToJson(message.payload.body)]

\* ---- serde_json::from_str, line 307 -------------------------------------
FieldFromJson(field, j) ==
    CASE FieldKind(field) = "strings" -> {j.array[i].atom : i \in DOMAIN j.array}
      [] FieldKind(field) = "readings" ->
            [i \in DOMAIN j.array |->
                TemperatureReading(j.array[i].temperature.celsius.atom,
                                   j.array[i].timestamp.atom)]
      [] FieldKind(field) = "stats" ->
            TemperatureStats(j.min.celsius.atom, j.max.celsius.atom,
                             j.average.celsius.atom, j.count.atom)
      [] OTHER -> j.atom

\* the variant is looked up by name among those of the enum expected here
VariantFromJson(enum, j) ==
    LET name == IF IsAtom(j) THEN j.atom ELSE CHOOSE k \in DOMAIN j : TRUE
        fields == FieldsOf(name)
    IN  IF name \notin Range(VariantsOf(enum)) THEN Err
        ELSE IF IsAtom(j) THEN (IF fields = <<>> THEN Ok([type |-> name]) ELSE Err)
        ELSE IF DOMAIN j[name] # Range(fields) THEN Err
        ELSE Ok([f \in {"type"} \cup Range(fields) |->
                    IF f = "type" THEN name ELSE FieldFromJson(f, j[name][f])])

from_str(data) ==
    IF DOMAIN data # {"version", "id", "payload"} THEN Err
    ELSE LET tag == CHOOSE k \in DOMAIN data.payload : TRUE
             body == VariantFromJson(tag, data.payload[tag])
         IN  IF tag \notin Range(VariantsOf("MessagePayload")) \/ ~body.ok THEN Err
             ELSE Ok(ProtocolMessage(data.version.atom, data.id.atom,
                                     [tag |-> tag, body |-> body.value]))

\* ---- postcard::to_allocvec, line 303 ------------------------------------
\* the index a variant is written as
IndexOf(enum, name) ==
    (CHOOSE i \in DOMAIN VariantsOf(enum) : VariantsOf(enum)[i] = name) - 1

FieldToBytes(field, v) ==
    CASE FieldKind(field) = "strings" -> <<Cardinality(v)>> \o SeqOfSet(v)
      [] FieldKind(field) = "readings" ->
            <<Len(v)>> \o [i \in 1..(2 * Len(v)) |->
                            IF i % 2 = 1 THEN v[(i + 1) \div 2].temperature
                            ELSE v[i \div 2].timestamp]
      [] FieldKind(field) = "stats" -> <<v.min, v.max, v.average, v.count>>
      [] OTHER -> <<v>>

RECURSIVE FieldsToBytes(_, _)
FieldsToBytes(body, fields) ==
    IF fields = <<>> THEN <<>>
    ELSE FieldToBytes(Head(fields), body[Head(fields)])
            \o FieldsToBytes(body, Tail(fields))

to_allocvec(message) ==
    <<message.version, message.id,
      IndexOf("MessagePayload", message.payload.tag),
      IndexOf(message.payload.tag, message.payload.body.type)>>
        \o FieldsToBytes(message.payload.body, FieldsOf(message.payload.body.type))

\* ---- postcard::from_bytes, line 311 -------------------------------------
\* the variant an index stands for in the enum expected here
VariantAtFromOne(enum, index) ==
    IF index \in DOMAIN VariantsOf(enum) THEN Some(VariantsOf(enum)[index]) ELSE None
VariantAt(enum, index) ==
    IF index + 1 \in DOMAIN VariantsOf(enum) THEN Some(VariantsOf(enum)[index + 1])
    ELSE None

\* the field that starts at pos and where the next one starts; None when the
\* bytes run out
FieldFromBytes(field, b, pos) ==
    CASE FieldKind(field) = "strings" ->
            IF pos + b[pos] > Len(b) THEN None
            ELSE Some([value |-> {b[i] : i \in (pos + 1)..(pos + b[pos])},
                       next |-> pos + b[pos] + 1])
      [] FieldKind(field) = "readings" ->
            IF pos + 2 * b[pos] > Len(b) THEN None
            ELSE Some([value |-> [i \in 1..b[pos] |->
                                    TemperatureReading(b[pos + 2 * i - 1], b[pos + 2 * i])],
                       next |-> pos + 2 * b[pos] + 1])
      [] FieldKind(field) = "stats" ->
            IF pos + 3 > Len(b) THEN None
            ELSE Some([value |-> TemperatureStats(b[pos], b[pos + 1], b[pos + 2],
                                                  b[pos + 3]),
                       next |-> pos + 4])
      [] OTHER -> Some([value |-> b[pos], next |-> pos + 1])

RECURSIVE FieldsFromBytes(_, _, _, _)
FieldsFromBytes(fields, b, pos, acc) ==
    IF fields = <<>> THEN Some([value |-> acc, next |-> pos])
    ELSE IF pos > Len(b) THEN None
    ELSE LET f == FieldFromBytes(Head(fields), b, pos)
         IN  IF f = None THEN None
             ELSE FieldsFromBytes(Tail(fields), b, f[1].next,
                                  acc @@ (Head(fields) :> f[1].value))

from_bytes(data) ==
    IF Len(data) < 4 THEN Err
    ELSE LET tag == VariantAt("MessagePayload", data[3])
             name == VariantAt(tag[1], data[4])
             body == FieldsFromBytes(FieldsOf(name[1]), data, 5, [type |-> name[1]])
         IN  IF tag = None THEN Err
             ELSE IF name = None THEN Err
             ELSE IF body = None THEN Err
             ELSE IF body[1].next # Len(data) + 1 THEN Err
             ELSE Ok(ProtocolMessage(data[1], data[2],
                                     [tag |-> tag[1], body |-> body[1].value]))

\* the responses a handler builds, one of every variant
Responses ==
    {Status(DOMAIN BaseTemperature, MaxElapsed, HandlerCapacity),
     Reading("temp_01", 235, MaxElapsed),
     ThresholdSet("temp_01", 150, 300),
     History("temp_01", <<>>),
     History("temp_01", <<TemperatureReading(235, 0), TemperatureReading(200, MaxElapsed)>>),
     Stats("temp_01", get_stats(<<>>)),
     Stats("temp_01", get_stats(<<TemperatureReading(235, 0), TemperatureReading(200, 0)>>)),
     CalibrationComplete("temp_01", 200 - 235),
     Error(505, Format("Protocol version mismatch: expected {}, got {}", <<1, 2>>))}

\* the envelopes encoded: every version and id, commands and responses
WireMessages ==
    Messages \cup {ProtocolMessage(v, id, ResponsePayload(r)) :
                    v \in Versions, id \in MessageIds, r \in Responses}

WireInit ==
    /\ envelope \in WireMessages
    /\ wire = None
    /\ decoded = None
    /\ StoreParked /\ MonitorParked /\ ProtocolParked /\ EmbeddedParked

\* serialize_json(message), lines 298-300
serialize_json ==
    /\ WireFrame
    /\ wire = None
    /\ wire' = Some([format |-> "json", data |-> to_string(envelope)])
    /\ UNCHANGED <<envelope, decoded>>

\* serialize_binary(message), lines 302-304
serialize_binary ==
    /\ WireFrame
    /\ wire = None
    /\ wire' = Some([format |-> "binary", data |-> to_allocvec(envelope)])
    /\ UNCHANGED <<envelope, decoded>>

\* deserialize_json(data), lines 306-308
deserialize_json ==
    /\ WireFrame
    /\ wire # None /\ decoded = None
    /\ wire[1].format = "json"
    /\ decoded' = Some(from_str(wire[1].data))
    /\ UNCHANGED <<envelope, wire>>

\* deserialize_binary(data), lines 310-312
deserialize_binary ==
    /\ WireFrame
    /\ wire # None /\ decoded = None
    /\ wire[1].format = "binary"
    /\ decoded' = Some(from_bytes(wire[1].data))
    /\ UNCHANGED <<envelope, wire>>

WireNext ==
    \/ serialize_json
    \/ serialize_binary
    \/ deserialize_json
    \/ deserialize_binary

(***************************************************************************)
(* temp_embedded: EmbeddedTemperatureStore<N> inside                       *)
(* EmbeddedProtocolHandler<N>                                              *)
(***************************************************************************)
EmbeddedCapacities == 0..MaxN
EmbeddedTemps == {-1, 2}
Times == 0..MaxTime
\* the rates given to SetSampleRate: both edges of 1..=1000 from both sides
Rates == {0, 1, 1000, 1001}

\* EmbeddedCommand, lines 154-161
EmbeddedCommands ==
    {[type |-> t] : t \in {"GetStatus", "GetLatestReading", "GetReadingCount",
                           "GetStats", "ClearReadings"}}
    \cup {[type |-> "SetSampleRate", rate |-> r] : r \in Rates}

\* EmbeddedError::error_code, lines 282-291
error_code(e) ==
    CASE e = "BufferFull" -> 1
      [] e = "InvalidSampleRate" -> 2
      [] e = "SensorTimeout" -> 3
      [] e = "InvalidCommand" -> 4
      [] e = "SerializationError" -> 5
      [] e = "NoReadings" -> 6

\* EmbeddedTemperatureReading::new, lines 17-19
EmbeddedTemperatureReading(temperature, timestamp) ==
    [temperature |-> temperature, timestamp |-> timestamp]

\* add_reading, line 39: the buffer is full and its oldest reading goes
IsFullNever(rs, n) == FALSE
IsFull(rs, n) == Len(rs) >= n

\* heapless Vec::remove(0) panics when the Vec is empty, line 41
EmbeddedRemovePanics(rs, n) == IsFull(rs, n) /\ rs = <<>>

\* add_reading, lines 36-46, from the test of line 39 on: the Vec as the call
\* leaves it and the Result it returns
EmbeddedAdd(rs, n, r) ==
    LET kept == IF IsFull(rs, n) THEN Tail(rs) ELSE rs
    IN  IF Len(kept) < n
        THEN [readings |-> Append(kept, r), result |-> [type |-> "Ok"]]
        ELSE [readings |-> kept, result |-> [type |-> "Err", error |-> "Storage full"]]

\* get_latest, lines 48-50
embedded_get_latest_first(rs) == IF rs = <<>> THEN None ELSE Some(rs[1])
embedded_get_latest(rs) == IF rs = <<>> THEN None ELSE Some(rs[Len(rs)])

\* get_stats, lines 52-85: the loop of lines 64-73 from reading i on
RECURSIVE EmbeddedScan(_, _, _)
EmbeddedScan(rs, i, acc) ==
    IF i > Len(rs) THEN acc
    ELSE LET temp == rs[i].temperature
         IN  EmbeddedScan(rs, i + 1,
                [min_temp |-> IF temp < acc.min_temp THEN temp ELSE acc.min_temp,
                 max_temp |-> IF temp > acc.max_temp THEN temp ELSE acc.max_temp,
                 sum |-> acc.sum + temp])

\* get_stats, lines 52-85: EmbeddedTemperatureStats { min, max, average, count }
embedded_get_stats(rs) ==
    IF rs = <<>> THEN [min |-> 0, max |-> 0, average |-> Divide(0, 1), count |-> 0]
    ELSE LET acc == EmbeddedScan(rs, 1, [min_temp |-> rs[1].temperature,
                                         max_temp |-> rs[1].temperature,
                                         sum |-> 0])
         IN  [min |-> acc.min_temp, max |-> acc.max_temp,
              average |-> Divide(acc.sum, Len(rs)), count |-> Len(rs)]

\* clear, lines 87-89: the fields of the store as the call leaves them
clear_resetting(rs, total) == [readings |-> <<>>, total_readings |-> 0]
embedded_clear(rs, total) == [readings |-> <<>>, total_readings |-> total]

\* u32::saturating_sub, line 201
unchecked_sub(a, b) == a - b
saturating_sub(a, b) == IF a >= b THEN a - b ELSE 0

\* buffer_usage, lines 202-206 (as u8 keeps the low 8 bits)
BufferUsage(len, n) == IF n > 0 THEN ((len * 100) \div n) % U8 ELSE 0

\* SetSampleRate, line 232
SampleRatePositive(rate) == rate > 0
SampleRateValid(rate) == rate > 0 /\ rate <= 1000

\* process_command, lines 198-240: the response and the fields of the handler
\* as the call leaves them
EmbeddedOutcome(command, current_time) ==
    LET same == [readings |-> ereadings, total_readings |-> total_readings,
                 sample_rate |-> sample_rate]
    IN  CASE command.type = "GetStatus" ->
                same @@ [response |->
                    [type |-> "Status",
                     uptime_seconds |-> saturating_sub(current_time, start_time),
                     reading_count |-> total_readings,
                     sample_rate |-> sample_rate,
                     buffer_usage |-> BufferUsage(Len(ereadings), N)]]
          [] command.type = "GetLatestReading" ->
                same @@ [response |->
                    IF embedded_get_latest(ereadings) # None
                    THEN [type |-> "Reading",
                          reading |-> embedded_get_latest(ereadings)[1]]
                    ELSE [type |-> "Error", code |-> error_code("NoReadings")]]
          [] command.type = "GetReadingCount" ->
                same @@ [response |-> [type |-> "ReadingCount", count |-> total_readings]]
          [] command.type = "GetStats" ->
                same @@ [response |->
                    [type |-> "Stats", stats |-> embedded_get_stats(ereadings)]]
          [] command.type = "ClearReadings" ->
                embedded_clear(ereadings, total_readings)
                    @@ [sample_rate |-> sample_rate, response |-> [type |-> "Cleared"]]
          [] command.type = "SetSampleRate" ->
                IF SampleRateValid(command.rate)
                THEN [same EXCEPT !.sample_rate = command.rate]
                        @@ [response |-> [type |-> "SampleRateSet", rate |-> command.rate]]
                ELSE same @@ [response |->
                        [type |-> "Error", code |-> error_code("InvalidSampleRate")]]

\* EmbeddedProtocolHandler::<N>::new(), lines 186-192
EmbeddedInit ==
    /\ N \in EmbeddedCapacities
    /\ ereadings = <<>>
    /\ total_readings = 0
    /\ sample_rate = SAMPLE_RATE_HZ
    /\ start_time = 0
    /\ epanicked = FALSE
    /\ erequest = None
    /\ eresponse = None
    /\ eadds = 0
    /\ eadded = <<>>
    /\ dyn = <<>>
    /\ StoreParked /\ MonitorParked /\ ProtocolParked /\ WireParked

\* init(start_time), lines 194-196
init(t) ==
    /\ EmbeddedFrame
    /\ ~epanicked
    /\ start_time' = t
    /\ erequest' = Some([op |-> "init", start_time |-> t])
    /\ eresponse' = None
    /\ UNCHANGED <<N, ereadings, total_readings, sample_rate, epanicked, eadds,
                   eadded, dyn>>

\* EmbeddedProtocolHandler::add_reading(temperature, timestamp), lines 250-253,
\* and EmbeddedTemperatureStore::add_reading, lines 36-46
embedded_add_reading(temperature) ==
    /\ EmbeddedFrame
    /\ ~epanicked
    /\ eadds < MaxEmbeddedAdds
    /\ LET reading == EmbeddedTemperatureReading(temperature, eadds + 1)
           out == EmbeddedAdd(ereadings, N, reading)
       IN  /\ erequest' = Some([op |-> "add_reading", reading |-> reading])
           /\ eadds' = eadds + 1
           /\ total_readings' = total_readings + 1
           /\ IF EmbeddedRemovePanics(ereadings, N)
              THEN /\ epanicked' = TRUE
                   /\ eresponse' = None
                   /\ UNCHANGED <<ereadings, eadded, dyn>>
              ELSE /\ ereadings' = out.readings
                   /\ eresponse' = Some(out.result)
                   /\ eadded' = Append(eadded, reading)
                   /\ dyn' = IF StoreAddPanics(dyn, N) THEN dyn
                             ELSE StoreAdd(dyn, N, reading)
                   /\ UNCHANGED epanicked
    /\ UNCHANGED <<N, sample_rate, start_time>>

\* EmbeddedTemperatureStore::clear, lines 87-89, called on the store itself
clear_store ==
    /\ EmbeddedFrame
    /\ ~epanicked
    /\ erequest # Some([op |-> "clear"])
    /\ LET out == embedded_clear(ereadings, total_readings)
       IN  /\ ereadings' = out.readings
           /\ total_readings' = out.total_readings
    /\ erequest' = Some([op |-> "clear"])
    /\ eresponse' = None
    /\ eadded' = <<>>
    /\ dyn' = <<>>
    /\ UNCHANGED <<N, sample_rate, start_time, epanicked, eadds>>

\* process_command(command, current_time), lines 198-240
embedded_process_command(command, current_time) ==
    /\ EmbeddedFrame
    /\ ~epanicked
    /\ LET out == EmbeddedOutcome(command, current_time)
       IN  /\ ereadings' = out.readings
           /\ total_readings' = out.total_readings
           /\ sample_rate' = out.sample_rate
           /\ eresponse' = Some(out.response)
    /\ erequest' = Some([op |-> "process_command", command |-> command,
                         current_time |-> current_time])
    /\ eadded' = IF command.type = "ClearReadings" THEN <<>> ELSE eadded
    /\ dyn' = IF command.type = "ClearReadings" THEN <<>> ELSE dyn
    /\ UNCHANGED <<N, start_time, epanicked, eadds>>

EmbeddedNext ==
    \/ \E t \in Times : init(t)
    \/ \E temperature \in EmbeddedTemps : embedded_add_reading(temperature)
    \/ clear_store
    \/ \E command \in EmbeddedCommands, t \in Times :
            embedded_process_command(command, t)

(***************************************************************************)
(* Specifications                                                          *)
(***************************************************************************)
StoreSpec == StoreInit /\ [][StoreNext]_vars

MonitorSpec == MonitorInit /\ [][MonitorNext]_vars

\* the scheduling run() relies on: a started sensor read completes (the mock
\* sensor sleeps read_delay and returns), select! picks among its ready branches
\* at random, so a ready command is taken sooner or later, and the runtime
\* resumes a suspended send whose place in the channel is free
MonitorFairSpec ==
    /\ MonitorSpec
    /\ WF_vars(SensorReadDone)
    /\ SF_vars(RecvCommand)
    /\ \A c \in Callers : WF_vars(SendResume(c))

\* the same with the callers' side of a query scheduled too: a caller awaiting
\* a reply is resumed once its oneshot channel is sent to or closed, and a
\* suspended send is resumed with SendError once the Receiver is gone; nothing
\* makes the owner drop a monitor whose run() has returned
MonitorCallersFairSpec ==
    /\ MonitorFairSpec
    /\ \A c \in Callers : WF_vars(RecvReply(c)) /\ WF_vars(SendFail(c))

ProtocolSpec == ProtocolInit /\ [][ProtocolNext]_vars

WireSpec == WireInit /\ [][WireNext]_vars

EmbeddedSpec == EmbeddedInit /\ [][EmbeddedNext]_vars

(***************************************************************************)
(* Properties of the store (checked under StoreSpec)                       *)
(***************************************************************************)
AtRet(t, nm) == tpc[t] = "ret" /\ top[t].name = nm

\* C1: with capacity N >= 1, once more than N readings have been added (since
\* construction or the last clear) and no call is in progress, the store holds
\* exactly the last N of them, in the order they were added.
C1_FifoEviction ==
    (lockOwner = 0 /\ capacity >= 1 /\ Len(sinceClear) > capacity)
        => readings = LastN(sinceClear, capacity)

C1_Witness ==
    /\ lockOwner = 0 /\ capacity = MaxCap
    /\ Len(sinceClear) = capacity + 1
    /\ readings = LastN(sinceClear, capacity)

\* C2: in every reachable state, also in the middle of a call made through a
\* cloned handle, the store holds at most capacity readings.
C2_LengthBounded == Len(readings) <= capacity

C2_Witness ==
    \E t \in Threads \ {1} :
        /\ AtRet(t, "add_reading")
        /\ capacity >= 1
        /\ Len(readings) = capacity
        /\ Len(sinceClear) > capacity

\* C3: add_reading never fails: no call panics and the mutex is never
\* poisoned, whatever the capacity.
C3_AddNeverFails == ~poisoned /\ \A t \in Threads : tpc[t] # "panicked"

\* C4: calculate_stats returns the least, the greatest, the mean and the number
\* of the readings held when it runs, and None when there are none.
C4_StatsOverHeld ==
    \A t \in Threads : AtRet(t, "calculate_stats") => IsStatsOf(tres[t], readings)

C4_Witness ==
    \E t \in Threads :
        /\ AtRet(t, "calculate_stats")
        /\ Len(readings) >= 2 /\ Len(sinceClear) > Len(readings)
        /\ tres[t] # None
        /\ tres[t][1].min < tres[t][1].max

\* C5: the calls are atomic: every call returns what it returns when the calls
\* are taken one at a time in the order they got the lock, between calls the
\* store is what that order leaves, and K adds into a store of capacity >= K
\* leave K readings, each present once.
C5_Atomic ==
    /\ \A t \in Threads : tpc[t] = "ret" => tres[t] = texp[t]
    /\ lockOwner = 0 => readings = linReadings
    /\ (lockOwner = 0 /\ Cardinality(issued) <= capacity
            /\ Len(sinceClear) = Cardinality(issued))
        => /\ Len(readings) = Cardinality(issued)
           /\ \A ts \in issued :
                Cardinality({i \in 1..Len(readings) : readings[i].timestamp = ts}) = 1

C5_Witness ==
    \E t \in Threads, u \in Threads :
        /\ t # u /\ hcap[u] >= 0 /\ tpc[u] = "idle"
        /\ AtRet(t, "calculate_stats")
        /\ tres[t] # None /\ tres[t][1].count = 2
        /\ Cardinality(issued) = 2

\* C6: get_latest returns the reading of the most recent add_reading not
\* followed by a clear, and None when there is no such add.
C6_LatestIsLastAdded ==
    \A t \in Threads :
        AtRet(t, "get_latest") =>
            tres[t] = IF sinceClear = <<>> THEN None
                      ELSE Some(sinceClear[Len(sinceClear)])

C6_Witness ==
    \E t \in Threads :
        /\ AtRet(t, "get_latest")
        /\ Len(sinceClear) >= 2
        /\ tres[t] = Some(sinceClear[Len(sinceClear)])

\* C7: get_recent_readings(n) returns the last min(n, length) readings held, in
\* insertion order, and no step of the call changes the store.
C7_RecentIsSuffix ==
    /\ [](\A t \in Threads :
            AtRet(t, "get_recent_readings") =>
                tres[t] = LastN(readings, MinOf(top[t].count, Len(readings))))
    /\ [][\A t \in Threads :
            top[t].name = "get_recent_readings" => readings' = readings]_vars

C7_Witness ==
    \E t \in Threads :
        /\ AtRet(t, "get_recent_readings")
        /\ top[t].count = 1 /\ Len(readings) = 2
        /\ tres[t] = <<readings[2]>>

(***************************************************************************)
(* Properties of the monitor (checked under MonitorSpec, MonitorFairSpec)  *)
(***************************************************************************)
InChannel(k) == \E i \in 1..Len(queue) : queue[i].kind = k
BeingSent(k) == \E c \in Callers : cpc[c] = "sending" /\ pending[c].kind = k

\* C8: once a Stop has been sent to a Running monitor (it is in the channel, or
\* its send waits for room), run() leaves its loop.
C8_StopTerminates ==
    (Running /\ (InChannel("Stop") \/ BeingSent("Stop"))) ~> ~Running

C8_Witness == monPc = "stopped" /\ stopAt = "running" /\ now >= 1

AllHandlesDropped ==
    /\ \E c \in Callers : cpc[c] = "dropped"
    /\ \A c \in Callers : cpc[c] \in {"none", "dropped"}

C10_ClosedWhenHandlesDropped == (Running /\ AllHandlesDropped) => SenderCount = 0

\* the step takes a command from the channel (the recv branch of select!)
TakesCommand == monPc = "select" /\ Len(queue') < Len(queue)

\* C11: a sensor read starts only on a ready tick, one per tick; a read that
\* succeeds appends one reading with the value read to the store (evicting the
\* oldest when full) and a read that fails leaves the store as it is; either
\* way the monitor goes back to waiting, and the tick is used up.
C11_TickReadsOnce ==
    /\ [][reads' # reads =>
            /\ monPc = "select" /\ tickReady
            /\ reads' = reads + 1 /\ monPc' = "read" /\ ~tickReady']_vars
    /\ [][(monPc = "read" /\ monPc' # "read") =>
            /\ monPc' = "select"
            /\ reads' = reads
            /\ IF sensor.fail_next
               THEN monStore' = monStore
               ELSE \E ts \in 1..MaxReads :
                      monStore' = SeqAfter(CallOf("add_reading",
                                      TemperatureReading(sensor.temperature, ts), 0),
                                      monStore, monCapacity)
                      /\ Len(monStore') >= 1]_vars

\* C12: handling SetInterval(d) leaves the store and the monitor's position in
\* its loop as they are: it stays Running.
C12_SetIntervalFrame ==
    [][(TakesCommand /\ Head(queue).kind = "SetInterval") =>
            /\ monStore' = monStore /\ now' = now /\ reads' = reads
            /\ monPc' = "select"
            /\ period' = Head(queue).duration]_vars

\* C13: no interval given to run() or carried by SetInterval, zero included,
\* makes run() panic.
C13_NoCommandCrash ==
    [][(monPc \in {"new", "select"}) => (monPc' # "panicked")]_vars

\* C14: a GetStats/GetLatest taken by the Running monitor is answered once, on
\* the oneshot channel it carries, with the statistics / the latest reading of
\* the store at that moment, and no other channel is touched; no channel is
\* ever sent to twice, no two callers or commands share one, and the channel a
\* caller awaits is the one inside its own command.
IsQuery(cmd) == cmd.kind \in {"GetStats", "GetLatest"}

C14_OneReplyPerQuery ==
    /\ [](/\ \A i \in 1..Len(slots) : slots[i].sends <= 1
          /\ \A c \in Callers, e \in Callers :
                (c # e /\ cslot[c] # 0) => cslot[c] # cslot[e]
          /\ \A i \in 1..Len(queue), j \in 1..Len(queue) :
                (i # j /\ IsQuery(queue[i])) => queue[i].reply # queue[j].reply
          /\ \A c \in Callers :
                /\ (cpc[c] = "sending" /\ IsQuery(pending[c])) => pending[c].reply = cslot[c]
                /\ (cpc[c] = "awaiting" /\ slots[cslot[c]].state = "open") =>
                        \E i \in 1..Len(queue) :
                            IsQuery(queue[i]) /\ queue[i].reply = cslot[c])
    /\ [][(TakesCommand /\ IsQuery(Head(queue))) =>
            LET r == Head(queue).reply
            IN  /\ slots[r].sends = 0 /\ slots'[r].sends = 1
                /\ \A i \in 1..Len(slots) : i # r => slots'[i] = slots[i]
                /\ slots[r].state = "open" =>
                     /\ slots'[r].state = "sent"
                     /\ IF Head(queue).kind = "GetStats"
                        THEN IsStatsOf(slots'[r].value, monStore)
                        ELSE slots'[r].value =
                                IF monStore = <<>> THEN None
                                ELSE Some(monStore[Len(monStore)])]_vars

C14_Witness ==
    \E c \in Callers, e \in Callers :
        /\ c # e /\ cpc[c] = "awaiting" /\ cpc[e] = "awaiting"
        /\ slots[cslot[c]].state = "sent" /\ slots[cslot[e]].state = "sent"
        /\ slots[cslot[c]].value # None

\* C15: the channel never holds more commands than its capacity; a send made
\* while it is full (or while others wait) is suspended with its command kept,
\* and a suspended command that gets a place goes to the end of the channel.
C15_Backpressure ==
    /\ [](Len(queue) <= chanCap)
    /\ [][(calls' # calls /\ monAlive /\ (~HasRoom \/ waiters # <<>>)) =>
            \E c \in Callers :
                /\ cpc[c] = "idle" /\ cpc'[c] = "sending"
                /\ pending'[c].kind # "none"
                /\ waiters' = Append(waiters, c)
                /\ cres'[c] # SendError
                /\ queue' = queue]_vars
    /\ [][\A c \in Callers :
            (cpc[c] = "sending" /\ cpc'[c] # "sending" /\ monAlive) =>
                    /\ Len(queue') = Len(queue) + 1
                    /\ queue'[Len(queue')].kind = pending[c].kind
                    /\ queue'[Len(queue')].reply = pending[c].reply
                    /\ queue'[Len(queue')].duration = pending[c].duration]_vars

C15_Witness ==
    /\ Running /\ Len(queue) = chanCap
    /\ queue[Len(queue)].waited

\* C30: SetInterval(d) takes effect from the next tick only: taking the
\* command off the channel does not make a tick due, so when no tick was due
\* before the command none is due after it and no sensor read follows before
\* a period has elapsed. Stated of intervals the loop survives (d > 0).
C30_SetIntervalNoTickDue ==
    [][(TakesCommand /\ Head(queue).kind = "SetInterval" /\ monPc' = "select") =>
            (~tickReady => ~tickReady')]_vars

(***************************************************************************)
(* Properties of the protocol handler (checked under ProtocolSpec)         *)
(***************************************************************************)
\* the step is a call of process_command: request' is its argument and
\* response' the envelope it returns
Processes == response = NoMessage /\ response' # NoMessage

\* the returned envelope carries Error with this code
ErrorCode(message, code) ==
    /\ message.payload.tag = "Response"
    /\ message.payload.body.type = "Error"
    /\ message.payload.body.code = code

\* the request is a version-1 envelope with a command of one of these types
CommandOf(message, types) ==
    /\ message.version = 1
    /\ message.payload.tag = "Command"
    /\ message.payload.body.type \in types

HandlerUnchanged == store' = store /\ thresholds' = thresholds /\ sensors' = sensors

\* C16: an envelope whose version is not 1 is answered with Error 505,
\* whatever its payload, and store, thresholds and sensors stay as they are.
C16_VersionRejected ==
    [][(Processes /\ request'.version # 1) =>
            (ErrorCode(response', 505) /\ HandlerUnchanged)]_vars

C16_Witness ==
    /\ request.version = MaxVersion
    /\ request.payload = CommandPayload(GetReading("temp_01"))
    /\ ErrorCode(response, 505)
    /\ store # <<>>

\* C17: process_command can be called with every envelope in every state of
\* the handler, and returns an envelope of version 1 with the id of the
\* request and a Response payload: Error, or the response that mirrors the
\* command.
Mirror(type) ==
    CASE type = "GetStatus" -> "Status"
      [] type = "GetReading" -> "Reading"
      [] type = "SetThreshold" -> "ThresholdSet"
      [] type = "GetHistory" -> "History"
      [] type = "GetStats" -> "Stats"
      [] type = "Calibrate" -> "CalibrationComplete"

C17_Total ==
    /\ [](response = NoMessage =>
            \A message \in Messages :
                (request = NoMessage \/ request = message) =>
                    ENABLED process_command(message))
    /\ [][Processes =>
            /\ response'.version = 1
            /\ response'.id = request'.id
            /\ response'.payload.tag = "Response"
            /\ \/ response'.payload.body.type = "Error"
               \/ /\ request'.payload.tag = "Command"
                  /\ response'.payload.body.type =
                        Mirror(request'.payload.body.type)]_vars

C17_Witness ==
    /\ request.version = 1 /\ request.id = MaxId
    /\ response.id = MaxId
    /\ request.payload.tag = "Command"
    /\ response.payload.body.type = "History"
    /\ response.payload.body.readings # <<>>

\* C18: a version-1 GetReading, GetHistory, GetStats or Calibrate naming a
\* sensor id that is not registered is answered with Error 404 and leaves the
\* store as it is.
C18_UnknownSensor404 ==
    [][(/\ Processes
        /\ CommandOf(request', {"GetReading", "GetHistory", "GetStats", "Calibrate"})
        /\ request'.payload.body.sensor_id \notin DOMAIN sensors) =>
            (ErrorCode(response', 404) /\ store' = store)]_vars

C18_Witness ==
    /\ request.version = 1
    /\ request.payload = CommandPayload(Calibrate("temp_99", 140))
    /\ ErrorCode(response, 404)
    /\ store # <<>>

\* C19: a version-1 SetThreshold with min >= max is answered with Error 400,
\* for registered and unregistered sensor ids alike, and leaves the threshold
\* table as it is.
C19_BadThreshold400 ==
    [][(/\ Processes
        /\ CommandOf(request', {"SetThreshold"})
        /\ request'.payload.body.min_temp >= request'.payload.body.max_temp) =>
            (ErrorCode(response', 400) /\ thresholds' = thresholds)]_vars

C19_Witness ==
    /\ request.version = 1
    /\ request.payload = CommandPayload(SetThreshold("temp_99", 300, 300))
    /\ ErrorCode(response, 400)
    /\ thresholds # <<>>

\* C20 as stated: a version-1 SetThreshold naming an unregistered sensor is
\* answered with Error 404 for every pair (min, max).
C20_UnknownSensorFirst ==
    [][(/\ Processes
        /\ CommandOf(request', {"SetThreshold"})
        /\ request'.payload.body.sensor_id \notin DOMAIN sensors) =>
            ErrorCode(response', 404)]_vars

\* C20: a version-1 SetThreshold naming an unregistered sensor is answered
\* with Error 400 when min >= max and with Error 404 when min < max (the range
\* is validated first), and leaves the threshold table as it is.
C20_RangeThenSensor ==
    [][(/\ Processes
        /\ CommandOf(request', {"SetThreshold"})
        /\ request'.payload.body.sensor_id \notin DOMAIN sensors) =>
            /\ IF request'.payload.body.min_temp >= request'.payload.body.max_temp
               THEN ErrorCode(response', 400)
               ELSE ErrorCode(response', 404)
            /\ thresholds' = thresholds]_vars

C20_Witness ==
    /\ request.version = 1
    /\ request.payload = CommandPayload(SetThreshold("temp_99", 150, 300))
    /\ ErrorCode(response, 404)
    /\ thresholds # <<>>

\* the returned envelope carries Error, whatever its code
IsError(message) ==
    /\ message.payload.tag = "Response"
    /\ message.payload.body.type = "Error"

\* C21: a rejected request mutates nothing: a call of process_command that
\* returns an Error response (its code is one of 400, 404, 422, 503, 505)
\* leaves the store, the threshold table and every registered sensor as
\* they were before the call.
C21_RejectionMutatesNothing ==
    [][(Processes /\ IsError(response')) =>
            /\ response'.payload.body.code \in {400, 404, 422, 503, 505}
            /\ HandlerUnchanged]_vars

\* a request was rejected by a handler whose store, threshold table and
\* sensor had all left their initial values
C21_Witness ==
    /\ response # NoMessage /\ IsError(response)
    /\ store # <<>>
    /\ thresholds # <<>>
    /\ \E s \in DOMAIN sensors : sensors[s].temperature # BaseTemperature[s]

\* C22: Calibrate{sensor, actual} on a registered sensor reads the sensor
\* exactly once; when the read succeeds the response is CalibrationComplete
\* with offset_adjustment = actual - measured and the sensor is rebased: a
\* GetReading that follows reports actual and a second Calibrate with the same
\* actual reports offset 0; when the read fails the response is Error 422 and
\* the baseline is as it was.
C22_Calibrate ==
    [][\A s \in DOMAIN sensors, actual \in ActualTemps :
        (/\ Processes
         /\ CommandOf(request', {"Calibrate"})
         /\ request'.payload.body = Calibrate(s, actual)) =>
            LET measured == read_temperature(sensors[s])
            IN  /\ sensor_reads' = 1
                /\ IF measured.ok
                   THEN /\ response'.payload.body =
                               CalibrationComplete(s, actual - measured.temp)
                        /\ (handle_command(GetReading(s)).response)' =
                               Reading(s, actual, elapsed')
                        /\ (handle_command(Calibrate(s, actual)).response)' =
                               CalibrationComplete(s, 0)
                   ELSE /\ ErrorCode(response', 422)
                        /\ sensors'[s].temperature = sensors[s].temperature]_vars

\* a registered sensor was calibrated away from the temperature it had: the
\* offset reported is not 0 and the sensor now reads the actual temperature
C22_Witness ==
    /\ response # NoMessage /\ request # NoMessage
    /\ CommandOf(request, {"Calibrate"})
    /\ response.payload.body.type = "CalibrationComplete"
    /\ response.payload.body.offset_adjustment # 0
    /\ sensor_reads = 1
    /\ sensors[request.payload.body.sensor_id].temperature =
           request.payload.body.actual_temp

EmbeddedCall(type, t) ==
    /\ erequest' # None
    /\ erequest'[1].op = "process_command"
    /\ erequest'[1].command.type = type
    /\ erequest'[1].current_time = t

\* the last call was process_command with a command of this type
EmbeddedCalled(type) ==
    /\ erequest # None /\ eresponse # None
    /\ erequest[1].op = "process_command"
    /\ erequest[1].command.type = type

\* C24: the embedded store drops the oldest reading: for N >= 1 every
\* add_reading returns Ok, the length never exceeds N, and the buffer holds the
\* last min(N, L) of the L readings added (since the last clear), in the order
\* they were added; "Storage full" is never reported.
C24_DropOldest ==
    N >= 1 =>
        /\ Len(ereadings) <= N
        /\ (erequest # None /\ erequest[1].op = "add_reading") =>
                eresponse = Some([type |-> "Ok"])
        /\ ereadings = LastN(eadded, IF Len(eadded) > N THEN N ELSE Len(eadded))

\* more than N readings were added to a store with N >= 2: two were evicted
C24_Witness ==
    /\ N = 2 /\ Len(eadded) = 4 /\ Len(ereadings) = 2
    /\ eadded[1].temperature # eadded[4].temperature
    /\ erequest[1].op = "add_reading"
    /\ eresponse = Some([type |-> "Ok"])

\* C25: total_readings never decreases and equals the number of add_reading
\* calls made so far, whatever was evicted or cleared (clear() and
\* ClearReadings leave it alone).
C25_TotalReadingsMonotonic ==
    [][/\ total_readings' >= total_readings
       /\ total_readings' = eadds']_vars

\* readings were evicted and the rest cleared by ClearReadings, and the
\* counter still counts them all
C25_Witness ==
    /\ N >= 1 /\ total_readings > N
    /\ ereadings = <<>>
    /\ EmbeddedCalled("ClearReadings")

\* C26: GetStatus reports buffer_usage = floor(100 * length / N), a value of
\* 0..100, reading_count = the number of readings ever added (not the length)
\* and uptime_seconds = max(0, current_time - start_time), and changes no
\* field of the handler. (N = 0 has no quotient; the answer is in 0..100.)
C26_GetStatus ==
    [][\A t \in Times :
        EmbeddedCall("GetStatus", t) =>
            /\ eresponse'[1].type = "Status"
            /\ eresponse'[1].buffer_usage \in 0..100
            /\ N >= 1 => eresponse'[1].buffer_usage = (100 * Len(ereadings)) \div N
            /\ eresponse'[1].reading_count = eadds
            /\ eresponse'[1].uptime_seconds =
                    (IF t - start_time > 0 THEN t - start_time ELSE 0)
            /\ UNCHANGED <<N, ereadings, total_readings, sample_rate, start_time>>]_vars

\* a status taken before start_time, of a buffer one third full that has seen
\* more readings than it holds
C26_Witness ==
    /\ EmbeddedCalled("GetStatus")
    /\ erequest[1].current_time < start_time
    /\ eresponse[1].uptime_seconds = 0
    /\ eresponse[1].buffer_usage = 33
    /\ eresponse[1].reading_count > Len(ereadings)

\* C27: SetSampleRate(rate) is accepted exactly when 1 <= rate <= 1000: the
\* sample rate becomes rate and the response is SampleRateSet(rate); otherwise
\* the response is Error(2) and the sample rate stays. No other call changes
\* the sample rate.
C27_SetSampleRate ==
    [][/\ \A t \in Times :
            EmbeddedCall("SetSampleRate", t) =>
                LET rate == erequest'[1].command.rate
                IN  IF 1 <= rate /\ rate <= 1000
                    THEN /\ sample_rate' = rate
                         /\ eresponse' = Some([type |-> "SampleRateSet", rate |-> rate])
                    ELSE /\ sample_rate' = sample_rate
                         /\ eresponse' = Some([type |-> "Error", code |-> 2])
       /\ sample_rate' # sample_rate =>
            \E t \in Times : EmbeddedCall("SetSampleRate", t)]_vars

\* the rate was set to the upper edge and the next larger one was refused
C27_Witness ==
    /\ EmbeddedCalled("SetSampleRate")
    /\ erequest[1].command.rate = 1001
    /\ eresponse[1] = [type |-> "Error", code |-> 2]
    /\ sample_rate = 1000

\* C28: GetLatestReading answers Reading(r), r the reading added last, when
\* the buffer is not empty, and Error(6) when it is empty, also after a clear
\* that left total_readings above 0.
C28_GetLatestReading ==
    [][\A t \in Times :
        EmbeddedCall("GetLatestReading", t) =>
            IF ereadings # <<>>
            THEN eresponse' = Some([type |-> "Reading", reading |-> eadded[Len(eadded)]])
            ELSE eresponse' = Some([type |-> "Error", code |-> 6])]_vars

\* the buffer was cleared after readings were added and GetLatestReading
\* answered NoReadings
C28_Witness ==
    /\ EmbeddedCalled("GetLatestReading")
    /\ eresponse[1] = [type |-> "Error", code |-> 6]
    /\ total_readings >= 2

\* C29: the embedded store and a dynamic store of the same capacity given the
\* same adds and clears agree on latest() and on stats(); stats() of the empty
\* store is absence in both (what the embedded store returns is compared as
\* the value present).
C29_SameReadContract ==
    ~epanicked =>
        /\ embedded_get_latest(ereadings) = LastCopied(dyn)
        /\ Some(embedded_get_stats(ereadings)) = StatsOf(dyn)

(***************************************************************************)
(* Further properties of the monitor (MonitorSpec, MonitorFairSpec)        *)
(***************************************************************************)
\* C31: while a sensor read is in flight the monitor does not stop, takes no
\* command off the channel, sends no reply and changes no period; the read
\* ends with the monitor back at select!, the value read stored as the newest
\* reading (a failed read stores nothing), or in the panic of the store's add.
C31_ReadNotInterrupted ==
    [][(monPc = "read") =>
        /\ monPc' \in {"read", "select", "panicked"}
        /\ Len(queue') >= Len(queue) /\ SubSeq(queue', 1, Len(queue)) = queue
        /\ \A i \in 1..Len(slots) : slots'[i].sends = slots[i].sends
        /\ period' = period /\ stopAt' = stopAt
        /\ (monPc' = "select") =>
              IF sensor.fail_next
              THEN monStore' = monStore
              ELSE /\ monStore' # <<>>
                   /\ monStore'[Len(monStore')] =
                         TemperatureReading(sensor.temperature, now')
        /\ (monPc' = "panicked") => (~sensor.fail_next /\ monCapacity = 0)
    ]_vars

C31_Witness ==
    /\ monPc = "read" /\ ~sensor.fail_next /\ monCapacity >= 1
    /\ InChannel("Stop")

\* C32: commands leave the channel in the order they entered it: a command
\* enters at the end, the monitor takes the one at the front and, when it is a
\* query, sends its reply and goes on; the monitor stops on Stop only when Stop
\* is at the front, every command that entered before it having been taken.
C32_StopInOrder ==
    /\ [][(Len(queue') > Len(queue)) =>
            (Len(queue') = Len(queue) + 1 /\ SubSeq(queue', 1, Len(queue)) = queue)]_vars
    /\ [][TakesCommand =>
            /\ queue' = Tail(queue)
            /\ IsQuery(Head(queue)) =>
                  /\ slots'[Head(queue).reply].sends = slots[Head(queue).reply].sends + 1
                  /\ monPc' = "select"
            /\ (monPc' = "stopped") =>
                  (Head(queue).kind = "Stop" /\ stopAt' = Head(queue).at)]_vars
    /\ [][(monPc = "select" /\ monPc' = "stopped" /\ queue # <<>>) =>
            (Head(queue).kind = "Stop" /\ queue' = Tail(queue))]_vars

C32_Witness ==
    /\ monPc = "select" /\ Len(queue) = 2
    /\ IsQuery(queue[1]) /\ slots[queue[1].reply].state = "open"
    /\ queue[2].kind = "Stop"

\* C33: a query whose caller dropped the reply receiver before the monitor took
\* it is handled like any other: reply.send is called once and its failure
\* ignored, the monitor stays at select!, store, period and pending tick are
\* as before, and from there a ready tick and a waiting command are taken.
C33_AbandonedReplyIgnored ==
    /\ [][(TakesCommand /\ IsQuery(Head(queue))
            /\ slots[Head(queue).reply].state = "abandoned") =>
            /\ monPc' = "select" /\ monAlive'
            /\ monStore' = monStore /\ now' = now /\ reads' = reads
            /\ period' = period /\ tickReady' = tickReady
            /\ queue' = Tail(queue)
            /\ slots' = [slots EXCEPT ![Head(queue).reply].sends = @ + 1]]_vars
    /\ []((monPc = "select"
            /\ \E i \in 1..Len(slots) : slots[i].state = "abandoned" /\ slots[i].sends = 1) =>
            /\ (tickReady /\ reads < MaxReads) => ENABLED Tick
            /\ (queue # <<>>) => ENABLED RecvCommand)

C33_Witness ==
    /\ monPc = "select" /\ monStore # <<>>
    /\ \E i \in 1..Len(slots) : slots[i].state = "abandoned" /\ slots[i].sends = 1

\* C36: a get_stats or get_latest call returns to its caller when the monitor
\* has stopped on Stop: a caller that is sending a query or awaiting its reply
\* while the monitor is Stopped is eventually back with a reply or an error
\* (or has given the call up itself).
C36_QueryReturns ==
    \A c \in Callers :
        (/\ monPc = "stopped" /\ stopAt = "running"
         /\ \/ cpc[c] = "awaiting"
            \/ cpc[c] = "sending" /\ IsQuery(pending[c]))
        ~> (cpc[c] \notin {"awaiting", "sending"})

\* the count a reply carries (an absent value reports an empty store)
CountOf(v) == IF v = None THEN 0 ELSE v[1].count
Reported(sl) ==
    /\ sl.state \in {"sent", "taken"}
    /\ sl.value = None \/ "count" \in DOMAIN sl.value[1]

\* C37: the monitor's store never holds more than its capacity and never
\* shrinks: a step leaves it alone, appends one reading while it is not full,
\* or at capacity drops the oldest and appends one; the counts reported by
\* GetStats replies, in the order the queries were made, never decrease and
\* never exceed the capacity.
C37_StoreOnlyGrows ==
    /\ [](Len(monStore) <= monCapacity)
    /\ [][/\ Len(monStore') >= Len(monStore)
           /\ \/ monStore' = monStore
              \/ /\ monStore' # <<>> /\ Len(monStore) < monCapacity
                 /\ monStore' = Append(monStore, monStore'[Len(monStore')])
              \/ /\ monStore' # <<>> /\ monStore # <<>> /\ Len(monStore) = monCapacity
                 /\ monStore' = Append(Tail(monStore), monStore'[Len(monStore')])]_vars
    /\ [](\A i \in 1..Len(slots), j \in 1..Len(slots) :
            (i < j /\ Reported(slots[i]) /\ Reported(slots[j])) =>
                CountOf(slots[i].value) <= CountOf(slots[j].value))
    /\ [](\A i \in 1..Len(slots) :
            Reported(slots[i]) => CountOf(slots[i].value) <= monCapacity)

C37_Witness ==
    /\ monCapacity >= 1 /\ now > monCapacity /\ Len(monStore) = monCapacity
    /\ \E i \in 1..Len(slots), j \in 1..Len(slots) :
            /\ i < j /\ Reported(slots[i]) /\ Reported(slots[j])
            /\ slots[i].value # None /\ slots[j].value # None
            /\ "count" \in DOMAIN slots[i].value[1]
            /\ "count" \in DOMAIN slots[j].value[1]

(***************************************************************************)
(* Further properties of the protocol handler (ProtocolSpec)               *)
(***************************************************************************)
\* C34: the ids create_command hands out are 1, 2, 3, ... in this order, each
\* one greater than the one before and none twice; the envelope it returns
\* carries the id just handed out; a call of process_command (and the
\* create_response inside it) leaves the counter and the ids handed out alone.
C34_IdsCountUp ==
    /\ [](/\ created_ids = [i \in 1..Len(created_ids) |-> i]
          /\ next_message_id = Len(created_ids) + 1)
    /\ [][(created_ids' # created_ids) =>
            /\ Len(created_ids') = Len(created_ids) + 1
            /\ SubSeq(created_ids', 1, Len(created_ids)) = created_ids
            /\ request'.id = created_ids'[Len(created_ids')]
            /\ request'.version = 1 /\ request'.payload.tag = "Command"
            /\ next_message_id' = next_message_id + 1]_vars
    /\ [][Processes =>
            (next_message_id' = next_message_id /\ created_ids' = created_ids)]_vars

C34_Witness ==
    /\ created_ids = <<1, 2>>
    /\ request # NoMessage /\ request.id = 2 /\ request.payload.tag = "Command"

\* C35: a version-1 envelope whose payload is a Response is answered, under
\* its own id, with Error 400, and store, thresholds and sensors stay as they
\* are.
C35_ResponsePayload400 ==
    [][(Processes /\ request'.version = 1 /\ request'.payload.tag = "Response") =>
            /\ ErrorCode(response', 400)
            /\ response'.id = request'.id /\ response'.version = 1
            /\ HandlerUnchanged]_vars

C35_Witness ==
    /\ request # NoMessage /\ response # NoMessage
    /\ request.version = 1 /\ request.payload.tag = "Response"
    /\ request.payload.body.type = "ThresholdSet"
    /\ store # <<>> /\ thresholds # <<>>

\* a response without the sensor id it repeats
Unnamed(resp) == [f \in DOMAIN resp \ {"sensor_id"} |-> resp[f]]

\* C38: history and statistics come from one store shared by all sensors: in
\* every state the handler answers GetHistory{a, n} and GetHistory{b, n}, and
\* GetStats{a} and GetStats{b}, alike for any two registered sensors a and b;
\* the store is the newest readings reported by GetReading, whatever sensor
\* they came from; GetHistory returns the newest min(n, length) of it and
\* GetStats its statistics, zeroed Stats with count 0 when it is empty.
C38_SharedStore ==
    /\ [](\A a \in DOMAIN sensors, b \in DOMAIN sensors :
            /\ \A n \in 0..MaxLastN :
                  Unnamed(handle_command(GetHistory(a, n)).response)
                    = Unnamed(handle_command(GetHistory(b, n)).response)
            /\ Unnamed(handle_command(GetStats(a)).response)
                    = Unnamed(handle_command(GetStats(b)).response))
    /\ [](store = Newest(answered, HandlerCapacity))
    /\ [][(Processes /\ CommandOf(request', {"GetHistory", "GetStats"})
            /\ request'.payload.body.sensor_id \in DOMAIN sensors) =>
            LET command == request'.payload.body
                body == response'.payload.body
            IN  /\ body.sensor_id = command.sensor_id
                /\ store' = store
                /\ IF command.type = "GetHistory"
                   THEN body = History(command.sensor_id,
                                       Newest(store, command.last_n))
                   ELSE /\ body.type = "Stats"
                        /\ IF store = <<>>
                           THEN body.stats = TemperatureStats(0, 0, Divide(0, 1), 0)
                           ELSE IsStatsOf(Some(body.stats), store)]_vars

C38_Witness ==
    /\ response # NoMessage /\ CommandOf(request, {"GetHistory"})
    /\ request.payload.body.sensor_id = "temp_01"
    /\ response.payload.body.type = "History"
    /\ Len(response.payload.body.readings) = 1
    /\ response.payload.body.readings[1].temperature = BaseTemperature["temp_02"]

\* C39: the sensors of the handler are the three registered at construction,
\* none ever offline or about to fail; no response carries Error 503 or 422;
\* GetReading on a registered sensor is answered with Reading and Calibrate
\* with CalibrationComplete.
C39_NoSensorFailure ==
    /\ [](/\ DOMAIN sensors = DOMAIN BaseTemperature
          /\ \A id \in DOMAIN sensors :
                ~sensors[id].fail_next /\ ~sensors[id].offline)
    /\ [](response # NoMessage =>
            (~ErrorCode(response, 503) /\ ~ErrorCode(response, 422)))
    /\ [][(Processes /\ CommandOf(request', {"GetReading", "Calibrate"})
            /\ request'.payload.body.sensor_id \in DOMAIN sensors) =>
            /\ sensor_reads' = 1
            /\ response'.payload.body.sensor_id = request'.payload.body.sensor_id
            /\ response'.payload.body.type =
                  IF request'.payload.body.type = "GetReading" THEN "Reading"
                  ELSE "CalibrationComplete"]_vars

C39_Witness ==
    /\ response # NoMessage /\ CommandOf(request, {"GetReading"})
    /\ response.payload.body.type = "Reading"
    /\ sensors["temp_01"].temperature \in ActualTemps
    /\ Len(answered) = MaxAnswered

\* C40: the store holds as many readings as GetReading requests were answered
\* with Reading, up to its capacity (the readings remembered are more than the
\* capacity, so the smaller of the two numbers is exact), and GetStatus
\* reports that number; the store changes only in a step that answers
\* GetReading with Reading; such a step reports the temperature of the sensor
\* named, whatever thresholds are set, appends it to the store and leaves the
\* thresholds alone.
C40_OnlyGetReadingStores ==
    /\ [](Len(store) = IF Len(answered) < HandlerCapacity THEN Len(answered)
                       ELSE HandlerCapacity)
    /\ [][(Processes /\ CommandOf(request', {"GetStatus"})) =>
            /\ response'.payload.body.type = "Status"
            /\ response'.payload.body.readings_count =
                    IF Len(answered) < HandlerCapacity THEN Len(answered)
                    ELSE HandlerCapacity]_vars
    /\ [][(store' # store \/ answered' # answered) =>
            /\ Processes /\ CommandOf(request', {"GetReading"})
            /\ response'.payload.body.type = "Reading"]_vars
    /\ [][(Processes /\ response'.payload.body.type = "Reading") =>
            LET sid == request'.payload.body.sensor_id
                reading == TemperatureReading(sensors[sid].temperature, elapsed)
            IN  /\ CommandOf(request', {"GetReading"})
                /\ response'.payload.body =
                        Reading(sid, sensors[sid].temperature, elapsed)
                /\ answered' = Newest(Append(answered, reading), MaxAnswered)
                /\ store' = Newest(Append(store, reading), HandlerCapacity)
                /\ thresholds' = thresholds /\ sensors' = sensors]_vars

C40_Witness ==
    /\ response # NoMessage /\ CommandOf(request, {"GetReading"})
    /\ response.payload.body.type = "Reading"
    /\ Len(answered) = MaxAnswered /\ Len(store) = HandlerCapacity
    /\ request.payload.body.sensor_id \in DOMAIN thresholds
    /\ response.payload.body.temperature
            < thresholds[request.payload.body.sensor_id][1]
====
